---- MODULE Spec2Model ----
(***************************************************************************)
(* A model of the log analysis service (log-ai-analyzer): the alert        *)
(* aggregator (package alert), the severity classifier and the tailer      *)
(* (package collector).                                                    *)
(*                                                                         *)
(* The string functions of the code (normalisation, edit distance, file    *)
(* names, keyword search) are computed character by character, as the code *)
(* computes them.                                                          *)
(* Time is counted in minutes.                                             *)
(***************************************************************************)
EXTENDS Integers, Sequences, FiniteSets, TLC

VARIABLES
    now,        \* the wall clock read by time.Now(), in minutes
    cache,      \* AlertCache.cache: alert key -> AggregatedAlert
    last,       \* the last AddOrUpdate / Cleanup call: its input and what it returned
    hist,       \* history: alert key -> the occurrences merged into the aggregate since it was created
    lines,      \* the lines of a span handed to toLogEvent
    events,     \* the events the collector produced last
    files,      \* the log files: path -> the bytes of the file
    offsets,    \* the offset files in ./offsets: path -> the text stored ("" when there is none)
    scan,       \* the last step of the tailer on each path: what the scan returned
    fileChan,   \* the channel of the paths to read: its buffer, and whether it is closed
    resultChan, \* the channel of the events read from a file
    errorChan,  \* the channel of the errors of the workers
    ctx,        \* the context of the cycle: done, and whether its deadline has passed
    workers,    \* the worker goroutines of the cycle: where each one is, and what it holds
    feeder,     \* the number of steps taken by the goroutine that fills fileChan
    closer,     \* where the goroutine that closes resultChan and errorChan is
    collector,  \* the caller of ReadNewLogEventsWithConfig: its loop, and what it returned
    mainLoop,   \* the main loop of main: what it sent to the processing workers
    config,     \* the CollectorConfig of the cycle: MaxWorkers
    reads,      \* path -> the calls of readFromFileWithContext for it in the cycle
    cfg,        \* the configuration: ESEnable, AlertEnable
    eventChan,  \* the channel of the events to process: its buffer
    toSend,     \* the events of the cycle the main loop has still to send to eventChan
    loopEvent,  \* the variable `event` of the loop that sends: the event sent last
    mainStep,   \* what the main loop does next in its cycle: send, cleanup, sweep, sleep
    eventCache, \* SmartAnalyzer.eventCache: signature -> CachedEvent
    relatedEvents, \* SmartAnalyzer.relatedEvents: EventID -> the related EventIDs
    mutex,      \* SmartAnalyzer.mutex: the worker that holds it, 0 when it is free
    mu,         \* AlertCache.mu: the worker that holds it, 0 when it is free
    pool,       \* the workers of main: where each one is, and what it holds
    sightings,  \* signature -> the calls of AnalyzeEvent since its entry was created
    analyzed,   \* the last call of AnalyzeEvent / CleanupExpiredEvents that returned
    cancelled,  \* the context of main is done: cancel() was called after a signal
    chanCloses  \* the number of calls of close(eventChan)

alertVars == <<now, cache, last, hist>>

classifierVars == <<lines, events>>

tailerVars == <<files, offsets, scan>>

cycleVars == <<fileChan, resultChan, errorChan, ctx, workers, feeder, closer, collector, mainLoop,
               config, reads>>

poolVars == <<cfg, eventChan, toSend, loopEvent, mainStep, eventCache, relatedEvents, mutex, mu, pool, sightings, analyzed,
              cancelled, chanCloses>>

vars == <<now, cache, last, hist, lines, events, files, offsets, scan,
          fileChan, resultChan, errorChan, ctx, workers, feeder, closer, collector, mainLoop,
          config, reads,
          cfg, eventChan, toSend, loopEvent, mainStep, eventCache, relatedEvents, mutex, mu, pool, sightings, analyzed,
          cancelled, chanCloses>>

----------------------------------------------------------------------------
(* Bounds of the model *)

\* Spec: the clock stops at MaxTime minutes, and AddOrUpdate is called at most
\* MaxOccurrences times
MaxTime == 10
MaxOccurrences == 4
\* SpecLow: the clock stops at MaxLowTime minutes, and the aggregates have held
\* at most MaxLowCount occurrences together
MaxLowTime == 30
MaxLowCount == 11
\* SpecScore: a span has at most MaxSpanLines lines
MaxSpanLines == 2
\* SpecScan: a file holds at most MaxFileLen bytes. The scanner holds at most
\* MaxScanTokenSize bytes of one line: bufio.MaxScanTokenSize, 64 * 1024 in
\* the library, scaled down to the size of the files of the model
MaxFileLen == 29
MaxScanTokenSize == 16
\* the bytes the first Read of the scanner asks for: the first size of its
\* buffer, 4096 in the library, scaled down in the same way
StartBufSize == 4

\* config.MaxWorkers is from 1 to MaxWorkers
MaxWorkers == 2

\* the time limit of SpecPool, in minutes
MaxClock == 10

----------------------------------------------------------------------------
(* Characters and strings *)

Digits == {"0", "1", "2", "3", "4", "5", "6", "7", "8", "9"}

UpperCase == <<"A", "B", "C", "D", "E", "F", "G", "H", "I", "J", "K", "L", "M",
               "N", "O", "P", "Q", "R", "S", "T", "U", "V", "W", "X", "Y", "Z">>

LowerCase == <<"a", "b", "c", "d", "e", "f", "g", "h", "i", "j", "k", "l", "m",
               "n", "o", "p", "q", "r", "s", "t", "u", "v", "w", "x", "y", "z">>

Range(s) == {s[i] : i \in DOMAIN s}

Letters == Range(UpperCase) \cup Range(LowerCase)

\* \w of the regular expressions: a letter, a digit or the underscore
WordChars == Letters \cup Digits \cup {"_"}

\* \s of the regular expressions and unicode.IsSpace, for the characters of the model
SpaceChars == {" ", "\t", "\n", "\r", "\f"}

IsSpace(c) == c \in SpaceChars

\* the character of s at position i, and the part of s from position i to its end
Char(s, i) == SubSeq(s, i, i)

From(s, i) == SubSeq(s, i, Len(s))

ToLowerChar(c) ==
    IF c \in Range(UpperCase)
    THEN LowerCase[CHOOSE i \in DOMAIN UpperCase : UpperCase[i] = c]
    ELSE c

ToUpperChar(c) ==
    IF c \in Range(LowerCase)
    THEN UpperCase[CHOOSE i \in DOMAIN LowerCase : LowerCase[i] = c]
    ELSE c

\* strings.ToLower and strings.ToUpper
RECURSIVE ToLower(_)
ToLower(s) == IF Len(s) = 0 THEN "" ELSE ToLowerChar(Char(s, 1)) \o ToLower(From(s, 2))

RECURSIVE ToUpper(_)
ToUpper(s) == IF Len(s) = 0 THEN "" ELSE ToUpperChar(Char(s, 1)) \o ToUpper(From(s, 2))

\* strings.TrimSpace
RECURSIVE TrimSpace(_)
TrimSpace(s) ==
    IF Len(s) = 0 THEN s
    ELSE IF IsSpace(Char(s, 1)) THEN TrimSpace(From(s, 2))
    ELSE IF IsSpace(Char(s, Len(s))) THEN TrimSpace(SubSeq(s, 1, Len(s) - 1))
    ELSE s

\* s holds sub at position i
HasAt(s, i, sub) == i + Len(sub) - 1 <= Len(s) /\ SubSeq(s, i, i + Len(sub) - 1) = sub

\* strings.Contains and strings.HasPrefix, for a sub that is not empty
Contains(s, sub) == \E i \in 1..Len(s) : HasAt(s, i, sub)

HasPrefix(s, prefix) == HasAt(s, 1, prefix)

\* strings.Join
RECURSIVE Join(_, _)
Join(strs, sep) ==
    IF strs = <<>> THEN ""
    ELSE IF Len(strs) = 1 THEN strs[1]
    ELSE strs[1] \o sep \o Join(Tail(strs), sep)

----------------------------------------------------------------------------
(* Regular expressions (package regexp): an expression is a tree, and a match *)
(* is found by backtracking, the leftmost match first and in it the choice    *)
(* the expression prefers.                                                    *)

\* one character of the set cs; any character but the newline; \b
OneOf(cs) == [t |-> "set", cs |-> cs]

AnyChar == [t |-> "any"]

WordBoundary == [t |-> "wb"]

\* the expressions rs one after the other; the first of rs that matches
Cat(rs) == [t |-> "cat", rs |-> rs]

Alt(rs) == [t |-> "alt", rs |-> rs]

\* r{lo,hi}, and with hi = -1 r{lo,}: as many repetitions as possible
Rep(r, lo, hi) == [t |-> "rep", r |-> r, lo |-> lo, hi |-> hi]

\* the string str, and with (?i) the string str in any case
Lit(str) == Cat([i \in 1..Len(str) |-> OneOf({Char(str, i)})])

LitFold(str) ==
    Cat([i \in 1..Len(str) |-> OneOf({ToLowerChar(Char(str, i)), ToUpperChar(Char(str, i))})])

\* Ends(r, s, i): the positions after the matches of r in s that start at
\* position i, in the order in which the backtracking tries them
RECURSIVE Ends(_, _, _), CatEnds(_, _, _, _), CatRest(_, _, _, _), AltEnds(_, _, _, _)
RECURSIVE RepEnds(_, _, _, _), RepRest(_, _, _, _), RunEnds(_, _, _)

Ends(r, s, i) ==
    CASE r.t = "set" -> IF i <= Len(s) /\ Char(s, i) \in r.cs THEN <<i + 1>> ELSE <<>>
      [] r.t = "any" -> IF i <= Len(s) /\ Char(s, i) # "\n" THEN <<i + 1>> ELSE <<>>
      [] r.t = "wb" ->
            IF (i > 1 /\ Char(s, i - 1) \in WordChars) # (i <= Len(s) /\ Char(s, i) \in WordChars)
            THEN <<i>> ELSE <<>>
      [] r.t = "cat" -> CatEnds(r.rs, 1, s, i)
      [] r.t = "alt" -> AltEnds(r.rs, 1, s, i)
      [] r.t = "rep" -> IF r.r.t \in {"set", "any"} THEN RunEnds(r, s, i)
                        ELSE RepEnds(r, s, i, 0)

CatEnds(rs, k, s, i) ==
    IF k > Len(rs) THEN <<i>> ELSE CatRest(Ends(rs[k], s, i), rs, k + 1, s)

CatRest(es, rs, k, s) ==
    IF es = <<>> THEN <<>> ELSE CatEnds(rs, k, s, es[1]) \o CatRest(Tail(es), rs, k, s)

AltEnds(rs, k, s, i) ==
    IF k > Len(rs) THEN <<>> ELSE Ends(rs[k], s, i) \o AltEnds(rs, k + 1, s, i)

\* the repetition of an expression that matches one character: the run of such
\* characters from position i on, the longest match first
RunEnds(r, s, i) ==
    LET rest == Len(s) - i + 1
        run == CHOOSE n \in 0..rest :
                  /\ \A j \in i..(i + n - 1) : Ends(r.r, s, j) # <<>>
                  /\ n = rest \/ Ends(r.r, s, i + n) = <<>>
        most == IF r.hi # -1 /\ r.hi < run THEN r.hi ELSE run
    IN  IF most < r.lo THEN <<>> ELSE [k \in 1..(most - r.lo + 1) |-> i + most - k + 1]

\* the repetition of any other expression, after n repetitions
RepEnds(r, s, i, n) ==
    (IF r.hi = -1 \/ n < r.hi
     THEN RepRest(SelectSeq(Ends(r.r, s, i), LAMBDA e : e > i), r, s, n + 1)
     ELSE <<>>)
    \o (IF n >= r.lo THEN <<i>> ELSE <<>>)

RepRest(es, r, s, n) ==
    IF es = <<>> THEN <<>> ELSE RepEnds(r, s, es[1], n) \o RepRest(Tail(es), r, s, n)

\* Regexp.MatchString
MatchString(r, s) == \E i \in 1..(Len(s) + 1) : Ends(r, s, i) # <<>>

\* Regexp.ReplaceAllString, for an expression that matches no empty string:
\* the matches of r in s from position i on are replaced by repl
RECURSIVE ReplaceAllString(_, _, _, _)
ReplaceAllString(r, s, repl, i) ==
    LET es == Ends(r, s, i)
    IN  IF i > Len(s) THEN ""
        ELSE IF es # <<>> /\ es[1] > i
             THEN repl \o ReplaceAllString(r, s, repl, es[1])
             ELSE Char(s, i) \o ReplaceAllString(r, s, repl, i + 1)

\* \d{n} and \s+
DigitsN(n) == Rep(OneOf(Digits), n, n)

SpaceRun == Rep(OneOf(SpaceChars), 1, -1)

\* \b\d+\b
Number == Cat(<<WordBoundary, Rep(OneOf(Digits), 1, -1), WordBoundary>>)

\* \d{2}:\d{2}:\d{2}
ClockTime == Cat(<<DigitsN(2), Lit(":"), DigitsN(2), Lit(":"), DigitsN(2)>>)

----------------------------------------------------------------------------
(* package alert: the strings of an alert *)

\* normalizeContent, its timestamp expression
\* \d{4}-\d{2}-\d{2}[T\s]\d{2}:\d{2}:\d{2}[\s\d.:]*|\w{3} \d{1,2} \d{2}:\d{2}:\d{2}
AlertTimestamp ==
    Alt(<<Cat(<<DigitsN(4), Lit("-"), DigitsN(2), Lit("-"), DigitsN(2),
                OneOf({"T"} \cup SpaceChars), ClockTime,
                Rep(OneOf(SpaceChars \cup Digits \cup {".", ":"}), 0, -1)>>),
          Cat(<<Rep(OneOf(WordChars), 3, 3), Lit(" "), Rep(OneOf(Digits), 1, 2),
                Lit(" "), ClockTime>>)>>)

\* alert.normalizeContent: timestamps removed, numbers replaced, lower case, white space collapsed
normalizeContent(content) ==
    TrimSpace(ReplaceAllString(SpaceRun,
        ToLower(ReplaceAllString(Number,
            ReplaceAllString(AlertTimestamp, content, "", 1), "NUMBER", 1)), " ", 1))

\* the strings the alert aggregator meets in the model
AlertStrings ==
    {"Io err 7 ab12", "io err 8 ab12", "io err 7 ab13", "io err 7 ac13", "oom 0x1f", "oom 0x2a",
     "/a/x", "/b/x"}

\* the normalised content of every string of the model (normalizeContent, tabulated)
NormalizedContent == [s \in AlertStrings |-> normalizeContent(s)]

\* alert.getContentHash: the MD5 digest of the normalised content. The digest is
\* modelled as injective: it is represented by the text it is computed from.
getContentHash(content) == "md5(" \o NormalizedContent[content] \o ")"

\* the part of s after the last occurrence of the character sep (s itself when there is none)
RECURSIVE AfterLast(_, _)
AfterLast(s, sep) ==
    IF Contains(s, sep)
    THEN AfterLast(From(s, 1 + CHOOSE i \in 1..Len(s) : Char(s, i) = sep), sep)
    ELSE s

\* alert.getFileName: the last component of the path, for / and for \ separators
FileNames == [s \in AlertStrings |-> AfterLast(AfterLast(s, "/"), "\\")]

getFileName(path) == FileNames[path]

\* removeWhitespace
RECURSIVE removeWhitespace(_)
removeWhitespace(s) ==
    IF Len(s) = 0 THEN ""
    ELSE (IF IsSpace(Char(s, 1)) THEN "" ELSE Char(s, 1)) \o removeWhitespace(From(s, 2))

min(a, b, c) ==
    IF a <= b /\ a <= c THEN a
    ELSE IF b <= a /\ b <= c THEN b
    ELSE c

max(a, b) == IF a > b THEN a ELSE b

\* one row of the dynamic-programming table of levenshteinDistance: row i from row
\* i - 1 (prev), for the character c = s1[i-1]; cur holds dp[i][0..j-1]
RECURSIVE LevRow(_, _, _, _)
LevRow(prev, c, s2, cur) ==
    IF Len(cur) = Len(s2) + 1 THEN cur
    ELSE LET j == Len(cur)
         IN  LevRow(prev, c, s2,
                    Append(cur, IF c = Char(s2, j) THEN prev[j]
                                ELSE min(prev[j + 1], cur[j], prev[j]) + 1))

RECURSIVE LevRows(_, _, _, _)
LevRows(s1, s2, i, prev) ==
    IF i > Len(s1) THEN prev[Len(s2) + 1]
    ELSE LevRows(s1, s2, i + 1, LevRow(prev, Char(s1, i), s2, <<prev[1] + 1>>))

\* levenshteinDistance: the edit distance of s1 and s2
levenshteinDistance(s1, s2) == LevRows(s1, s2, 1, [j \in 1..(Len(s2) + 1) |-> j - 1])

\* calculateSimilarity(s1, s2) >= pct, for a percentage pct. The code computes
\* (1 - distance/maxLen) * 100 in floating point; for strings of up to 60
\* characters its comparison with 90.0 agrees with the integer comparison below.
calculateSimilarityAtLeast(s1, s2, pct) ==
    IF s1 = s2 THEN 100 >= pct
    ELSE LET a == removeWhitespace(ToLower(s1))
             b == removeWhitespace(ToLower(s2))
             maxLen == max(Len(a), Len(b))
         IN  IF Len(a) = 0 \/ Len(b) = 0 THEN 0 >= pct
             ELSE 100 * (maxLen - levenshteinDistance(a, b)) >= pct * maxLen

\* isSimilarEnough: the same host and a content similarity of at least 90%
SimilarityThreshold == 90

\* the pairs of strings of the model that are similar enough (tabulated)
SimilarEnough ==
    [s1 \in AlertStrings |->
        [s2 \in AlertStrings |-> calculateSimilarityAtLeast(s1, s2, SimilarityThreshold)]]

isSimilarEnough(event1, event2) ==
    IF event1.Host # event2.Host THEN FALSE
    ELSE SimilarEnough[event1.RawText][event2.RawText]

----------------------------------------------------------------------------
(* The alert aggregator: AlertCache *)

\* the default of the alert TTL, in minutes
AlertTTL == 5

HighSeverity == 8
MediumSeverity == 5
HighAlwaysSent == 3
MediumAlwaysSent == 2
HighResendMinutes == 5
MediumResendMinutes == 10
LowResendMinutes == 30
LowResendCount == 10
MaxContextLines == 20

\* generateAlertKey: "<host>-<file name>-<content hash>", with the prefix
\* "cell-trace-" for a cell-trace event
generateAlertKey(event) ==
    (IF event.IsCellTrace THEN "cell-trace-" ELSE "")
    \o event.Host \o "-" \o getFileName(event.FilePath) \o "-" \o getContentHash(event.RawText)

\* the elements of s, each at its first occurrence only, in order
RECURSIVE Dedup(_, _)
Dedup(s, seen) ==
    IF s = <<>> THEN <<>>
    ELSE IF s[1] \in seen THEN Dedup(Tail(s), seen)
    ELSE <<s[1]>> \o Dedup(Tail(s), seen \cup {s[1]})

\* mergeContextLines
mergeContextLines(existing, new) ==
    IF Len(new) = 0 THEN existing
    ELSE IF Len(existing) = 0 THEN new
    ELSE LET result == Dedup(existing \o new, {})
         IN  IF Len(result) > MaxContextLines THEN SubSeq(result, 1, MaxContextLines)
             ELSE result

\* an update that stores the incoming severity instead of the maximum
updateAggregateLatestSeverity(agg, event, aiResult, t) ==
    [agg EXCEPT
        !.Count = @ + 1,
        !.LastAlertAt = t,
        !.Severity = event.SeverityScore,
        !.TotalScore = @ + event.SeverityScore,
        !.Content = event.RawText,
        !.AiResult = aiResult,
        !.ContextLines = IF Len(event.ContextLines) > 0
                         THEN mergeContextLines(@, event.ContextLines)
                         ELSE @]

\* AddOrUpdate, the update of an existing aggregate at time t
updateAggregate(agg, event, aiResult, t) ==
    [agg EXCEPT
        !.Count = @ + 1,
        !.LastAlertAt = t,
        !.Severity = max(@, event.SeverityScore),
        !.TotalScore = @ + event.SeverityScore,
        !.Content = event.RawText,
        !.AiResult = aiResult,
        !.ContextLines = IF Len(event.ContextLines) > 0
                         THEN mergeContextLines(@, event.ContextLines)
                         ELSE @]

\* a tiered send decision that guarantees one occurrence fewer in each tier
tieredSendOneFewer(agg, event, t) ==
    IF event.SeverityScore >= HighSeverity
    THEN IF agg.Count < HighAlwaysSent THEN TRUE
         ELSE t - agg.LastAlertAt >= HighResendMinutes
    ELSE IF event.SeverityScore >= MediumSeverity
    THEN IF agg.Count < MediumAlwaysSent THEN TRUE
         ELSE t - agg.LastAlertAt >= MediumResendMinutes
    ELSE (agg.Count % LowResendCount = 0) \/ (t - agg.LastAlertAt >= LowResendMinutes)

\* AddOrUpdate, the tiered send decision for an aggregate that was just updated
\* (agg is the aggregate after updateAggregate, t is the time of the call)
tieredSend(agg, event, t) ==
    IF event.SeverityScore >= HighSeverity
    THEN IF agg.Count <= HighAlwaysSent THEN TRUE
         ELSE t - agg.LastAlertAt >= HighResendMinutes
    ELSE IF event.SeverityScore >= MediumSeverity
    THEN IF agg.Count <= MediumAlwaysSent THEN TRUE
         ELSE t - agg.LastAlertAt >= MediumResendMinutes
    ELSE (agg.Count % LowResendCount = 0) \/ (t - agg.LastAlertAt >= LowResendMinutes)

\* a merge that never takes an event for newly flagged
newlyCellTraceIgnored(agg, event) == FALSE

\* AddOrUpdate, an event newly flagged as cell-trace on an aggregate that is not flagged
newlyCellTrace(agg, event) == event.IsCellTrace /\ ~agg.IsCellTrace

\* AddOrUpdate, the aggregate created for a new alert at time t
newAggregate(event, aiResult, t) ==
    [EventID |-> event.EventID,
     Host |-> event.Host,
     Severity |-> event.SeverityScore,
     Count |-> 1,
     LastAlertAt |-> t,
     FirstAlertAt |-> t,
     Content |-> event.RawText,
     AiResult |-> aiResult,
     IsCellTrace |-> event.IsCellTrace,
     FilePath |-> event.FilePath,
     ContextLines |-> event.ContextLines,
     TotalScore |-> event.SeverityScore]

\* a send decision for a new alert that ignores the cell-trace flag
newAlertSendBySeverityOnly(event) == event.SeverityScore >= MediumSeverity

\* AddOrUpdate, the send decision for a new alert
newAlertSend(event) ==
    IF event.SeverityScore >= HighSeverity THEN TRUE
    ELSE IF event.SeverityScore >= MediumSeverity THEN TRUE
    ELSE event.IsCellTrace

\* AddOrUpdate, the aggregates of c at which the scan for a similar aggregate can stop
similarKeys(c, event) ==
    {k \in DOMAIN c :
        /\ c[k].Host = event.Host
        /\ c[k].FilePath = event.FilePath
        /\ isSimilarEnough(event, [RawText |-> c[k].Content, Host |-> c[k].Host])}

\* the history of an alert key: the severities of the occurrences merged into its
\* aggregate since it was created, the time of the last call that returned
\* send = true for it (a sequence of one time, empty when there was none), and
\* the number of times Cleanup deleted the aggregate of the key, and the number
\* of occurrences ever merged under the key
NoSend == <<>>

NoHistory(deletions, calls) ==
    [sevs |-> <<>>, sentAt |-> NoSend, deletions |-> deletions, calls |-> calls]

Recorded(h, event, send, t) ==
    [sevs |-> Append(h.sevs, event.SeverityScore),
     sentAt |-> IF send THEN <<t>> ELSE h.sentAt,
     deletions |-> h.deletions,
     calls |-> h.calls + 1]

\* AddOrUpdate merges the event into the existing aggregate k (found by its key
\* or by the scan for a similar aggregate)
MergeInto(k, event, aiResult, path) ==
    LET updated == updateAggregate(cache[k], event, aiResult, now)
        forced == newlyCellTrace(updated, event)
        send == tieredSend(updated, event, now) \/ forced
        agg == [updated EXCEPT !.IsCellTrace = @ \/ forced]
    IN  /\ cache' = [cache EXCEPT ![k] = agg]
        /\ hist' = [hist EXCEPT ![k] = Recorded(@, event, send, now)]
        /\ last' = [op |-> "AddOrUpdate", path |-> path, key |-> k, event |-> event,
                    aiResult |-> aiResult, send |-> send, alert |-> agg,
                    before |-> cache, sentBefore |-> hist[k].sentAt]

\* AddOrUpdate creates a new aggregate under the event's key
CreateNew(key, event, aiResult) ==
    LET agg == newAggregate(event, aiResult, now)
        send == newAlertSend(event)
    IN  /\ cache' = [k \in DOMAIN cache \cup {key} |-> IF k = key THEN agg ELSE cache[k]]
        /\ hist' = [k \in DOMAIN hist \cup {key} |->
                        IF k = key
                        THEN Recorded(IF key \in DOMAIN hist
                                      THEN NoHistory(hist[key].deletions, hist[key].calls)
                                      ELSE NoHistory(0, 0),
                                      event, send, now)
                        ELSE hist[k]]
        /\ last' = [op |-> "AddOrUpdate", path |-> "new", key |-> key, event |-> event,
                    aiResult |-> aiResult, send |-> send, alert |-> agg,
                    before |-> cache, sentBefore |-> NoSend]

\* an AddOrUpdate that looks the event up by its key only
AddOrUpdateExactOnly(event, aiResult) ==
    LET key == generateAlertKey(event)
    IN  /\ IF key \in DOMAIN cache
           THEN MergeInto(key, event, aiResult, "exact")
           ELSE CreateNew(key, event, aiResult)
        /\ UNCHANGED now

\* AlertCache.AddOrUpdate, under the mutex of the cache
AddOrUpdate(event, aiResult) ==
    LET key == generateAlertKey(event)
    IN  /\ IF key \in DOMAIN cache
           THEN MergeInto(key, event, aiResult, "exact")
           ELSE IF similarKeys(cache, event) # {}
                THEN \E k \in similarKeys(cache, event) : MergeInto(k, event, aiResult, "fuzzy")
                ELSE CreateNew(key, event, aiResult)
        /\ UNCHANGED now

\* an expiry that already holds when the aggregate was last seen exactly ttl ago
expiredAtTTL(agg, t, ttl) == t - agg.LastAlertAt >= ttl

\* AlertCache.Cleanup: an aggregate is deleted when it was last seen more than ttl ago
expired(agg, t, ttl) == t - agg.LastAlertAt > ttl

Cleanup ==
    LET keep == {k \in DOMAIN cache : ~expired(cache[k], now, AlertTTL)}
    IN  /\ cache' = [k \in keep |-> cache[k]]
        /\ hist' = [k \in DOMAIN hist |->
                        IF k \in DOMAIN cache \ keep
                        THEN NoHistory(hist[k].deletions + 1, hist[k].calls)
                        ELSE hist[k]]
        /\ last' = [op |-> "Cleanup", before |-> cache]
        /\ UNCHANGED now

\* time passes, in steps of five minutes, up to the time limit
TickSteps == {5}

Tick(limit) ==
    \E d \in TickSteps :
        /\ now + d <= limit
        /\ now' = now + d
        /\ last' = [op |-> "Tick"]
        /\ UNCHANGED <<cache, hist>>

----------------------------------------------------------------------------
(* collector: the tags and the severity score of an event *)

keywords ==
    <<"ERROR", "FAILED", "Failed", "Error", "fail", "error", "oom", "killed", "OOM",
      "KILLED", "Cell Trace", "Runtime Error", "Exception", "Panic", "Fatal",
      "Critical", "Timeout", "Connection refused", "OutOfMemory">>

severityMap ==
    ("FATAL" :> 10) @@ ("CRITICAL" :> 9) @@ ("ERROR" :> 8) @@ ("EXCEPTION" :> 7) @@
    ("PANIC" :> 7) @@ ("OOM" :> 8) @@ ("OUTOFMEMORY" :> 8) @@ ("KILLED" :> 6) @@
    ("FAILED" :> 5) @@ ("FAIL" :> 4) @@ ("CELL TRACE" :> 6) @@ ("RUNTIME ERROR" :> 5) @@
    ("TIMEOUT" :> 4) @@ ("CONNECTION REFUSED" :> 3) @@ ("WARNING" :> 2) @@ ("WARN" :> 2)

\* cellTracePatterns
cellTracePatterns ==
    <<Cat(<<LitFold("cell"), SpaceRun, LitFold("trace"), Rep(AnyChar, 0, -1), LitFold("error")>>),
      Cat(<<LitFold("cell"), SpaceRun, LitFold("trace"), Rep(AnyChar, 0, -1), LitFold("exception")>>),
      Cat(<<LitFold("cell"), SpaceRun, LitFold("trace"), Rep(AnyChar, 0, -1), LitFold("failed")>>),
      Cat(<<LitFold("trace"), SpaceRun, LitFold("id:"), Rep(OneOf(SpaceChars), 0, -1),
            Rep(OneOf(Letters \cup Digits \cup {"-"}), 1, -1), Rep(AnyChar, 0, -1),
            LitFold("error")>>)>>

\* some pattern of cellTracePatterns matches the text
matchesCellTrace(text) ==
    \E k \in DOMAIN cellTracePatterns : MatchString(cellTracePatterns[k], text)

\* strings.ToUpper(kw) of every keyword (tabulated)
upperKeywords == [kw \in Range(keywords) |-> ToUpper(kw)]

\* extractTags: every keyword a line holds, whatever the case, line by line
RECURSIVE extractTags(_)
extractTags(ls) ==
    IF ls = <<>> THEN <<>>
    ELSE LET upperLine == ToUpper(ls[1])
         IN  SelectSeq(keywords, LAMBDA kw : Contains(upperLine, upperKeywords[kw]))
             \o extractTags(Tail(ls))

\* calculateSeverityScore, the weights of the tags: their sum and their maximum
RECURSIVE tagScore(_)
tagScore(tags) ==
    IF tags = <<>> THEN [score |-> 0, maxScore |-> 0]
    ELSE LET rest == tagScore(Tail(tags))
             s == IF ToUpper(tags[1]) \in DOMAIN severityMap
                  THEN severityMap[ToUpper(tags[1])] ELSE 0
         IN  [score |-> s + rest.score,
              maxScore |-> IF s > rest.maxScore THEN s ELSE rest.maxScore]

\* calculateSeverityScore, the number of error keywords in the text
errorKeywords ==
    <<"ERROR", "EXCEPTION", "FAILED", "FATAL", "SEGMENTATION FAULT", "CORE DUMPED",
      "CALL TRACE", "BLOCKED FOR MORE THAN">>

\* calculateSeverityScore, the score before the upper limit is applied
scoreBeforeLimit(ls, tags) ==
    LET text == Join(ls, " ")
        upperText == ToUpper(text)
        errorCount == Len(SelectSeq(errorKeywords, LAMBDA kw : Contains(upperText, kw)))
        score ==
            tagScore(tags).score
            + (IF matchesCellTrace(text) THEN 3 ELSE 0)
            + (IF Contains(upperText, "STACK") \/ Contains(upperText, "TRACEBACK")
               THEN 2 ELSE 0)
            + (IF Contains(text, "Call Trace:") \/ Contains(upperText, "CALL TRACE")
               THEN 4 ELSE 0)
            + (IF Contains(text, "<TASK>") /\ Contains(text, "</TASK>") THEN 3 ELSE 0)
            + (IF errorCount > 1 THEN errorCount ELSE 0)
            + (IF Contains(text, "\"level\":\"error\"") \/ Contains(text, "\"error\":")
               THEN 3 ELSE 0)
            + (IF Contains(text, "blocked for more than")
                  /\ Contains(text, "hung_task_timeout_secs")
               THEN 5 ELSE 0)
    IN  IF score < tagScore(tags).maxScore THEN tagScore(tags).maxScore ELSE score

MaxSeverityScore == 10

\* the score without its upper limit
calculateSeverityScoreUnlimited(ls, tags) == scoreBeforeLimit(ls, tags)

\* calculateSeverityScore
calculateSeverityScore(ls, tags) ==
    IF scoreBeforeLimit(ls, tags) > MaxSeverityScore
    THEN MaxSeverityScore
    ELSE scoreBeforeLimit(ls, tags)

\* toLogEvent: the event of a span of lines, without file and context
toLogEvent(ls) ==
    [RawLines |-> ls,
     RawText |-> Join(ls, "\n"),
     Host |-> "h1",
     Tags |-> extractTags(ls),
     SeverityScore |-> calculateSeverityScore(ls, extractTags(ls)),
     FilePath |-> "",
     LineNumber |-> 0,
     ContextLines |-> <<>>,
     IsCellTrace |-> FALSE]

\* a span of lines is turned into an event
ToLogEvent ==
    /\ events = <<>>
    /\ events' = <<toLogEvent(lines)>>
    /\ UNCHANGED lines

----------------------------------------------------------------------------
(* collector: the tailer. A file is read from its stored offset, the lines  *)
(* read are cut into events, and the offset reached is stored.              *)

\* DefaultConfig.ContextLines
ContextLines == 5

\* fmt.Sprintf("%d", offset), for an offset that is not negative
DigitChars == <<"0", "1", "2", "3", "4", "5", "6", "7", "8", "9">>

RECURSIVE FormatInt(_)
FormatInt(n) ==
    IF n < 10 THEN DigitChars[n + 1]
    ELSE FormatInt(n \div 10) \o DigitChars[(n % 10) + 1]

\* the number the decimal digits of s stand for, after the number acc
RECURSIVE ParseDigits(_, _)
ParseDigits(s, acc) ==
    IF Len(s) = 0 THEN acc
    ELSE ParseDigits(From(s, 2),
                     10 * acc + (CHOOSE d \in 0..9 : DigitChars[d + 1] = Char(s, 1)))

\* strconv.ParseInt(s, 10, 64): an optional sign and decimal digits
ParseInt(s) ==
    LET digits == IF HasPrefix(s, "-") \/ HasPrefix(s, "+") THEN From(s, 2) ELSE s
    IN  IF Len(digits) = 0 \/ \E i \in 1..Len(digits) : Char(digits, i) \notin Digits
        THEN [ok |-> FALSE, value |-> 0]
        ELSE [ok |-> TRUE,
              value |-> IF HasPrefix(s, "-") THEN 0 - ParseDigits(digits, 0)
                        ELSE ParseDigits(digits, 0)]

\* loadOffset: the offset in the offset file of the path; 0 when the file is
\* missing (stored = "") or holds no number
loadOffset(stored) ==
    IF ParseInt(TrimSpace(stored)).ok THEN ParseInt(TrimSpace(stored)).value ELSE 0

\* bufio.Scanner with bufio.ScanLines over the bytes data, from position pos
\* on: the lines read, and the number of bytes read from the file. A line ends
\* at "\n"; a last line without "\n" ends at the end of the data. The scanner
\* stops when its buffer of MaxScanTokenSize bytes is full and holds no "\n"
\* (ErrTooLong): Scan returns false then, as it does at the end of the data.
RECURSIVE Scanner(_, _, _)
Scanner(data, pos, acc) ==
    LET dropCR(l) == IF Len(l) > 0 /\ Char(l, Len(l)) = "\r" THEN SubSeq(l, 1, Len(l) - 1) ELSE l
        window == SubSeq(data, pos, IF pos + MaxScanTokenSize - 1 < Len(data)
                                     THEN pos + MaxScanTokenSize - 1 ELSE Len(data))
        nl == CHOOSE i \in 1..Len(window) : Char(window, i) = "\n"
                                             /\ \A j \in 1..(i - 1) : Char(window, j) # "\n"
    IN  IF pos > Len(data) THEN [lines |-> acc, read |-> Len(data)]
        ELSE IF Contains(window, "\n")
             THEN Scanner(data, pos + nl, Append(acc, dropCR(SubSeq(window, 1, nl - 1))))
        ELSE IF Len(window) = MaxScanTokenSize
             THEN [lines |-> acc, read |-> pos - 1 + MaxScanTokenSize]
        ELSE [lines |-> Append(acc, dropCR(window)), read |-> Len(data)]

\* isCellTraceLine
isCellTraceLine(line) == matchesCellTrace(line)

\* isLineMatch: the line is a trigger, and it is a cell trace
isLineMatch(line) ==
    IF isCellTraceLine(line) THEN [isMatch |-> TRUE, isCellTrace |-> TRUE]
    ELSE LET upperLine == ToUpper(line)
         IN  [isMatch |-> \E kw \in Range(keywords) : Contains(upperLine, upperKeywords[kw]),
              isCellTrace |-> FALSE]

\* shouldIncludeLine: the line belongs to the span in the buffer
shouldIncludeLine(line, buffer) ==
    IF TrimSpace(line) = "" THEN FALSE
    ELSE IF buffer = <<>> THEN FALSE
    ELSE \/ /\ HasPrefix(line, "\t") \/ HasPrefix(line, "    ")
            /\ \E pkg \in {"java.", "org.", "com.", "net.", "io.", "/", ".py", ".java"} :
                  Contains(line, pkg)
         \/ \E kw \in {"at ", "Caused by", "Exception in thread", "Traceback", "File \""} :
               Contains(line, kw)
         \/ /\ isCellTraceLine(buffer[1])
            /\ \/ Contains(ToLower(line), "trace id")
               \/ Contains(line, ":") /\ Contains(ToLower(line), "error")

\* cleanErrorMessage, its expressions
\* \d{4}-\d{2}-\d{2}[T\s]\d{2}:\d{2}:\d{2}(\.\d+)?([-+]\d{2}:?\d{2}|Z)?
timePattern ==
    Cat(<<DigitsN(4), Lit("-"), DigitsN(2), Lit("-"), DigitsN(2),
          OneOf({"T"} \cup SpaceChars), ClockTime,
          Rep(Cat(<<Lit("."), Rep(OneOf(Digits), 1, -1)>>), 0, 1),
          Rep(Alt(<<Cat(<<OneOf({"-", "+"}), DigitsN(2), Rep(Lit(":"), 0, 1), DigitsN(2)>>),
                    Lit("Z")>>), 0, 1)>>)

HexDigits == Digits \cup {"a", "b", "c", "d", "e", "f", "A", "B", "C", "D", "E", "F"}

\* 0x[0-9a-fA-F]+
hexPattern == Cat(<<Lit("0x"), Rep(OneOf(HexDigits), 1, -1)>>)

\* [0-9a-fA-F]{8}-[0-9a-fA-F]{4}-[0-9a-fA-F]{4}-[0-9a-fA-F]{4}-[0-9a-fA-F]{12}
uuidPattern ==
    Cat(<<Rep(OneOf(HexDigits), 8, 8), Lit("-"), Rep(OneOf(HexDigits), 4, 4), Lit("-"),
          Rep(OneOf(HexDigits), 4, 4), Lit("-"), Rep(OneOf(HexDigits), 4, 4), Lit("-"),
          Rep(OneOf(HexDigits), 12, 12)>>)

\* cleanErrorMessage: timestamps, hexadecimal ids, UUIDs and numbers removed,
\* white space collapsed
cleanErrorMessage(message) ==
    TrimSpace(ReplaceAllString(SpaceRun,
        ReplaceAllString(Number,
            ReplaceAllString(uuidPattern,
                ReplaceAllString(hexPattern,
                    ReplaceAllString(timePattern, message, "", 1), "", 1), "", 1), "", 1), " ", 1))

\* isSimilarError: the cleaned messages are equal, or calculateSimilarity of
\* package collector, 1 - distance/maxLen, is above 0.8
isSimilarError(current, lastLine) ==
    IF lastLine = "" THEN FALSE
    ELSE LET c == cleanErrorMessage(current)
             l == cleanErrorMessage(lastLine)
         IN  \/ c = l
             \/ /\ Len(c) # 0 /\ Len(l) # 0
                /\ 5 * levenshteinDistance(c, l) < max(Len(c), Len(l))

\* extractContext: up to n lines before and n lines after the line at the
\* 0-based index centerIndex
extractContext(allLines, centerIndex, n) ==
    IF allLines = <<>> \/ n <= 0 THEN <<>>
    ELSE SubSeq(allLines, max(centerIndex - n, 0) + 1,
                IF centerIndex < Len(allLines) THEN centerIndex ELSE Len(allLines))
         \o SubSeq(allLines, centerIndex + 2,
                   IF centerIndex + n + 1 > Len(allLines) THEN Len(allLines)
                   ELSE centerIndex + n + 1)

\* toLogEventWithContext
toLogEventWithContext(ls, filePath, startLine, allLines, contextLines) ==
    [RawLines |-> ls,
     RawText |-> Join(ls, "\n"),
     Host |-> "h1",
     Tags |-> extractTags(ls),
     SeverityScore |-> calculateSeverityScore(ls, extractTags(ls)),
     FilePath |-> filePath,
     LineNumber |-> startLine,
     ContextLines |-> extractContext(allLines, startLine - 1, contextLines),
     IsCellTrace |-> FALSE]

\* readFromFileWithContext, the loop over the lines read: the events of
\* allLines from line i on, st being the variables of the loop and
\* contextLines config.ContextLines
RECURSIVE segmentWith(_, _, _, _, _)
segmentWith(allLines, i, st, filePath, contextLines) ==
    LET line == allLines[i]
        m == isLineMatch(line)
        event(cell) ==
            [toLogEventWithContext(st.buffer, filePath, st.matchStartLine, allLines, contextLines)
                EXCEPT !.IsCellTrace = cell]
    IN  IF i > Len(allLines)
        THEN IF st.matched /\ st.buffer # <<>>
             THEN Append(st.events, event(isLineMatch(st.buffer[1]).isCellTrace))
             ELSE st.events
        ELSE IF m.isMatch /\ isSimilarError(line, st.lastErrorLine)
        THEN segmentWith(allLines, i + 1, st, filePath, contextLines)
        ELSE IF m.isMatch
        THEN segmentWith(allLines, i + 1,
                     [buffer |-> <<line>>, matched |-> TRUE, matchStartLine |-> i,
                      lastErrorLine |-> line,
                      events |-> IF st.buffer # <<>> /\ st.matched
                                 THEN Append(st.events, event(m.isCellTrace))
                                 ELSE st.events],
                     filePath, contextLines)
        ELSE IF st.matched /\ shouldIncludeLine(line, st.buffer)
        THEN segmentWith(allLines, i + 1, [st EXCEPT !.buffer = Append(@, line)], filePath,
                         contextLines)
        ELSE IF st.matched
        THEN segmentWith(allLines, i + 1,
                     [st EXCEPT !.matched = FALSE, !.buffer = <<>>,
                                !.events = IF st.buffer # <<>>
                                           THEN Append(@, event(m.isCellTrace)) ELSE @],
                     filePath, contextLines)
        ELSE segmentWith(allLines, i + 1, st, filePath, contextLines)

\* the loop with the context lines of DefaultConfig
segment(allLines, i, st, filePath) == segmentWith(allLines, i, st, filePath, ContextLines)

\* what can go wrong in a scan: nothing, the file cannot be opened, the
\* deadline of the cycle passes while the lines are read, the offset cannot be
\* written, the second Read of the scanner fails
ScanFaults == {"none", "open", "deadline", "save", "read"}

\* a scan that stores the size of the file, whatever offset was stored before
readFromFileRewinding(filePath, fault) ==
    [events |-> <<>>, err |-> "", saved |-> TRUE,
     stored |-> FormatInt(Len(files[filePath])), failure |-> "", complete |-> TRUE]

\* readFromFileWithContext: the events and the error returned, and the content
\* of the offset file afterwards. failure: what made the scan stop before the
\* end of the file ("" when nothing did); complete: every byte of the file
\* was read
readFromFileWithContext(filePath, fault) ==
    LET lastOffset == loadOffset(offsets[filePath])
        unread == From(files[filePath], lastOffset + 1)
        \* a Read that fails ends the scanner as the end of the file does:
        \* Scan returns false, and the error is not looked at
        delivered == IF fault = "read" /\ Len(unread) > StartBufSize
                     THEN SubSeq(unread, 1, StartBufSize) ELSE unread
        sc == Scanner(delivered, 1, <<>>)
        returns(evs, err, saved, stored, failure, complete) ==
            [events |-> evs, err |-> err, saved |-> saved, stored |-> stored,
             failure |-> failure, complete |-> complete]
    IN  IF fault = "open" THEN returns(<<>>, "open", FALSE, offsets[filePath], "open", FALSE)
        ELSE IF Len(files[filePath]) <= lastOffset
        THEN returns(<<>>, "", FALSE, offsets[filePath], "", TRUE)
        ELSE IF fault = "deadline" /\ sc.lines # <<>>
        THEN returns(<<>>, "context deadline exceeded", FALSE, offsets[filePath],
                     "deadline", FALSE)
        ELSE returns(segment(sc.lines, 1,
                             [buffer |-> <<>>, matched |-> FALSE, matchStartLine |-> 0,
                              lastErrorLine |-> "", events |-> <<>>],
                             filePath),
                     "", fault # "save",
                     IF fault = "save" THEN offsets[filePath]
                     ELSE FormatInt(lastOffset + sc.read),
                     IF fault = "read" THEN "read" ELSE "",
                     fault # "read" /\ sc.read = Len(unread))

\* one scan of the file: the offset file is written, and the scan is recorded.
\* settled: a scan has succeeded and stored its offset, and nothing was
\* appended to the file since; rescan: that was so when this scan began.
Scan(filePath, fault) ==
    LET r == readFromFileWithContext(filePath, fault)
    IN  /\ offsets' = [offsets EXCEPT ![filePath] = r.stored]
        /\ scan' = [scan EXCEPT ![filePath] =
                        [op |-> "Scan", events |-> r.events, err |-> r.err,
                         saved |-> r.saved, before |-> offsets[filePath],
                         rescan |-> scan[filePath].settled,
                         settled |-> r.saved \/ scan[filePath].settled,
                         failure |-> r.failure, complete |-> r.complete]]
        /\ UNCHANGED files

\* the writer of the log appends bytes to the file
AppendBytes(filePath, bytes) ==
    /\ files' = [files EXCEPT ![filePath] = @ \o bytes]
    /\ scan' = [scan EXCEPT ![filePath] =
                    [op |-> "Append", events |-> <<>>, err |-> "", saved |-> FALSE,
                     before |-> offsets[filePath], rescan |-> FALSE, settled |-> FALSE,
                     failure |-> "", complete |-> FALSE]]
    /\ UNCHANGED offsets

\* the log is rotated: the file is there again with no byte in it
Truncate(filePath) ==
    /\ files[filePath] # ""
    /\ files' = [files EXCEPT ![filePath] = ""]
    /\ scan' = [scan EXCEPT ![filePath] =
                    [op |-> "Truncate", events |-> <<>>, err |-> "", saved |-> FALSE,
                     before |-> offsets[filePath], rescan |-> FALSE, settled |-> FALSE,
                     failure |-> "", complete |-> FALSE]]
    /\ UNCHANGED offsets

----------------------------------------------------------------------------
(* The inputs of the alert aggregator *)

\* TextB differs from TextA in a number the normaliser replaces, TextC in a
\* value the normaliser leaves alone
TextA == "Io err 7 ab12"
TextB == "io err 8 ab12"
TextC == "io err 7 ab13"

\* two files with the same base name
PathA == "/a/x"
PathB == "/b/x"

\* the context lines numbered a to b
Lines(a, b) == [i \in 1..(b - a + 1) |-> a + i - 1]

\* an event handed to AddOrUpdate (the fields of collector.LogEvent the alert
\* package reads); a context line is represented by a number
Event(host, path, text, severity, cell, context) ==
    [EventID |-> "id", Host |-> host, FilePath |-> path, RawText |-> text,
     SeverityScore |-> severity, IsCellTrace |-> cell, ContextLines |-> context]

\* the calls of AddOrUpdate in Spec: <<event, aiResult>>
Calls ==
    { <<Event("h1", PathA, TextA, 8, FALSE, Lines(1, 11)), "r1">>,
      <<Event("h1", PathA, TextB, 5, FALSE, Lines(9, 19)), "r2">>,
      <<Event("h1", PathA, TextA, 4, FALSE, <<>>), "r2">>,
      <<Event("h1", PathA, TextC, 8, FALSE, <<3, 3, 20, 21>>), "r2">>,
      <<Event("h1", PathA, TextC, 4, TRUE, <<4>>), "r1">>,
      <<Event("h1", PathB, TextC, 5, FALSE, <<>>), "r1">>,
      <<Event("h2", PathA, TextA, 8, FALSE, <<>>), "r1">> }

\* the calls of AddOrUpdate in SpecLow: events of low severity
LowCalls ==
    { <<Event("h1", PathA, TextA, 4, FALSE, <<>>), "r1">>,
      <<Event("h1", PathA, TextC, 4, TRUE, <<>>), "r2">> }

----------------------------------------------------------------------------
(* The specifications of the alert aggregator *)

AlertInit ==
    /\ now = 0
    /\ cache = <<>>
    /\ hist = <<>>
    /\ last = [op |-> "none"]

\* no span was handed to the classifier
ClassifierIdle == lines = <<>> /\ events = <<>>

\* the number of occurrences recorded in the histories h of the alert keys
RECURSIVE Occurrences(_, _)
Occurrences(h, keys) ==
    IF keys = {} THEN 0
    ELSE LET k == CHOOSE x \in keys : TRUE
         IN  h[k].calls + Occurrences(h, keys \ {k})

\* the files the tailer follows
ScanPaths == {PathA}

\* no file holds a byte, and no offset is stored
TailerInit ==
    /\ files = [p \in ScanPaths |-> ""]
    /\ offsets = [p \in ScanPaths |-> ""]
    /\ scan = [p \in ScanPaths |->
                  [op |-> "none", events |-> <<>>, err |-> "", saved |-> FALSE,
                   before |-> "", rescan |-> FALSE, settled |-> FALSE,
                   failure |-> "", complete |-> FALSE]]

\* a channel as make(chan T, n) returns it
NewChan == [buf |-> <<>>, closed |-> FALSE]

\* no cycle is under way
CycleIdle ==
    /\ fileChan = NewChan
    /\ resultChan = NewChan
    /\ errorChan = NewChan
    /\ ctx = [done |-> FALSE, expired |-> FALSE]
    /\ workers = <<>>
    /\ feeder = 0
    /\ closer = "wait"
    /\ collector = [pc |-> "idle", i |-> 0, allEvents |-> <<>>, errors |-> <<>>, err |-> "",
                    got |-> {}, expired |-> FALSE]
    /\ mainLoop = [pc |-> "idle", events |-> <<>>]
    /\ config = [MaxWorkers |-> 0]
    /\ reads = <<>>

NoEvent == [EventID |-> ""]

\* no event is being processed
PoolIdle ==
    /\ cfg = [ESEnable |-> FALSE, AlertEnable |-> FALSE]
    /\ eventChan = <<>>
    /\ toSend = <<>>
    /\ loopEvent = NoEvent
    /\ mainStep = "sleep"
    /\ eventCache = <<>>
    /\ relatedEvents = <<>>
    /\ mutex = 0
    /\ mu = 0
    /\ pool = <<>>
    /\ sightings = <<>>
    /\ analyzed = [op |-> "none"]
    /\ cancelled = FALSE
    /\ chanCloses = 0

Init == AlertInit /\ ClassifierIdle /\ TailerInit /\ CycleIdle /\ PoolIdle

Next ==
    /\ UNCHANGED classifierVars
    /\ UNCHANGED tailerVars
    /\ UNCHANGED cycleVars
    /\ UNCHANGED poolVars
    /\ \/ \E call \in Calls :
             /\ Occurrences(hist, DOMAIN hist) < MaxOccurrences
             /\ AddOrUpdate(call[1], call[2])
       \/ Cleanup
       \/ Tick(MaxTime)

Spec == Init /\ [][Next]_vars

LowNext ==
    /\ UNCHANGED classifierVars
    /\ UNCHANGED tailerVars
    /\ UNCHANGED cycleVars
    /\ UNCHANGED poolVars
    /\ \/ \E call \in LowCalls :
             /\ Occurrences(hist, DOMAIN hist) < MaxLowCount
             /\ AddOrUpdate(call[1], call[2])
       \/ Cleanup
       \/ Tick(MaxLowTime)

SpecLow == Init /\ [][LowNext]_vars

----------------------------------------------------------------------------
(* The specification of the severity classifier *)

\* the lines the spans of SpecScore are made of
SpanLines ==
    { "ok",
      "Timeout x",
      "FATAL ERROR",
      "Cell Trace: failed",
      "Call Trace: <TASK> </TASK>",
      "{\"level\":\"error\"}",
      "blocked for more than 9 hung_task_timeout_secs",
      "trace id: a-1 Exception stack",
      "Connection refused",
      "core dumped, segmentation fault" }

\* the sequences of 1 to n elements of S
RECURSIVE SeqsUpTo(_, _)
SeqsUpTo(S, n) ==
    IF n = 0 THEN {}
    ELSE {<<x>> : x \in S} \cup SeqsUpTo(S, n - 1)
         \cup {Append(q, x) : q \in SeqsUpTo(S, n - 1), x \in S}

ScoreInit ==
    /\ AlertInit
    /\ TailerInit
    /\ CycleIdle
    /\ PoolIdle
    /\ lines \in SeqsUpTo(SpanLines, MaxSpanLines)
    /\ events = <<>>

ScoreNext == ToLogEvent /\ UNCHANGED alertVars /\ UNCHANGED tailerVars /\ UNCHANGED cycleVars
             /\ UNCHANGED poolVars

SpecScore == ScoreInit /\ [][ScoreNext]_vars

----------------------------------------------------------------------------
(* The specification of the tailer *)

\* what the writer of a log appends in one write: lines, the beginning of a
\* line, a line of more than MaxScanTokenSize bytes without its end
Writes ==
    { "ok\nFail",
      "oom\r\n\t/a\n",
      "aaaaaaaaaaaaaaaaaaaa" }

ScanNext ==
    /\ UNCHANGED alertVars
    /\ UNCHANGED classifierVars
    /\ UNCHANGED cycleVars
    /\ UNCHANGED poolVars
    /\ \/ \E p \in ScanPaths, bytes \in Writes :
             /\ Len(files[p]) + Len(bytes) <= MaxFileLen
             /\ AppendBytes(p, bytes)
       \/ \E p \in ScanPaths, fault \in ScanFaults : Scan(p, fault)
       \/ \E p \in ScanPaths : Truncate(p)

SpecScan == Init /\ [][ScanNext]_vars

----------------------------------------------------------------------------
(* collector: one scan cycle, ReadNewLogEventsWithConfig, and what the main *)
(* loop does with its result. The goroutines of the cycle (the workers, the *)
(* one that fills fileChan, the one that closes the channels, the caller)   *)
(* take their steps in any order.                                           *)

\* cfg.LogFiles: the files of a cycle, and what they hold
filePaths == <<PathA, PathB>>

CycleFiles == (PathA :> "oom\n") @@ (PathB :> "ok\nFail")

\* as many workers as files, whatever config.MaxWorkers is
workerCountPerFile(maxWorkers) == Len(filePaths)

\* workerCount: config.MaxWorkers, and no more workers than files
workerCount(maxWorkers) == IF Len(filePaths) < maxWorkers THEN Len(filePaths) ELSE maxWorkers

\* make(chan T, len(filePaths))
Capacity == Len(filePaths)

\* a receive from the channel can proceed: a value is buffered, or the channel is closed
CanReceive(ch) == ch.buf # <<>> \/ ch.closed

\* the value a receive yields (the zero value zero from a closed, empty channel)
Received(ch, zero) == IF ch.buf # <<>> THEN Head(ch.buf) ELSE zero

AfterReceive(ch) == IF ch.buf # <<>> THEN [ch EXCEPT !.buf = Tail(@)] ELSE ch

\* a send to the channel can proceed: the buffer has room
CanSend(ch) == Len(ch.buf) < Capacity

\* the deadline of the cycle passes: context.WithTimeout
Deadline ==
    /\ ~ctx.done
    /\ collector.pc = "collect"
    /\ ctx' = [done |-> TRUE, expired |-> TRUE]
    /\ UNCHANGED <<fileChan, resultChan, errorChan, workers, feeder, closer, collector,
                   mainLoop, tailerVars>>

\* the goroutine that sends the paths to fileChan and closes it
FeederStep ==
    /\ feeder <= Len(filePaths)
    /\ IF feeder < Len(filePaths)
       THEN /\ CanSend(fileChan)
            /\ fileChan' = [fileChan EXCEPT !.buf = Append(@, filePaths[feeder + 1])]
       ELSE fileChan' = [fileChan EXCEPT !.closed = TRUE]
    /\ feeder' = feeder + 1
    /\ UNCHANGED <<resultChan, errorChan, ctx, workers, closer, collector, mainLoop, tailerVars>>

\* a worker at its select takes a path from fileChan, or returns when fileChan is closed
WorkerReceive(w) ==
    /\ workers[w].pc = "select"
    /\ CanReceive(fileChan)
    /\ workers' = [workers EXCEPT ![w] =
                      IF fileChan.buf # <<>>
                      THEN [pc |-> "read", path |-> Head(fileChan.buf), events |-> <<>>]
                      ELSE [pc |-> "done", path |-> "", events |-> <<>>]]
    /\ fileChan' = AfterReceive(fileChan)
    /\ UNCHANGED <<resultChan, errorChan, ctx, feeder, closer, collector, mainLoop, tailerVars>>

\* a worker at its select sees the context done: it will report the timeout and return
WorkerTimeout(w) ==
    /\ workers[w].pc = "select"
    /\ ctx.done
    /\ workers' = [workers EXCEPT ![w] = [pc |-> "sendTimeout", path |-> "", events |-> <<>>]]
    /\ UNCHANGED <<fileChan, resultChan, errorChan, ctx, feeder, closer, collector,
                   mainLoop, tailerVars>>

\* a worker reads its file: readFromFileWithContext, cancelled when the context is done
WorkerRead(w, fault) ==
    /\ workers[w].pc = "read"
    /\ fault \in IF ctx.done THEN {"open", "deadline"} ELSE {"none", "open"}
    /\ Scan(workers[w].path, fault)
    /\ workers' = [workers EXCEPT ![w] =
                      [pc |-> IF scan'[workers[w].path].err = "" THEN "sendResult" ELSE "sendError",
                       path |-> workers[w].path,
                       events |-> scan'[workers[w].path].events]]
    /\ reads' = [reads EXCEPT ![workers[w].path] = @ + 1]
    /\ UNCHANGED <<fileChan, resultChan, errorChan, ctx, feeder, closer, collector, mainLoop,
                   config>>

\* a worker sends what it has: the events to resultChan, an error to errorChan
WorkerSend(w) ==
    /\ \/ /\ workers[w].pc = "sendResult"
          /\ CanSend(resultChan)
          /\ resultChan' = [resultChan EXCEPT !.buf =
                               Append(@, [path |-> workers[w].path, events |-> workers[w].events])]
          /\ UNCHANGED errorChan
       \/ /\ workers[w].pc \in {"sendError", "sendTimeout"}
          /\ CanSend(errorChan)
          /\ errorChan' = [errorChan EXCEPT !.buf =
                              Append(@, [path |-> workers[w].path,
                                         err |-> IF workers[w].pc = "sendTimeout"
                                                 THEN "timeout" ELSE "read failed"])]
          /\ UNCHANGED resultChan
    /\ workers' = [workers EXCEPT ![w] =
                      [pc |-> IF workers[w].pc = "sendTimeout" THEN "done" ELSE "select",
                       path |-> "", events |-> <<>>]]
    /\ UNCHANGED <<fileChan, ctx, feeder, closer, collector, mainLoop, tailerVars>>

\* the goroutine that waits for the workers and closes resultChan, then errorChan
CloserStep ==
    /\ \A w \in DOMAIN workers : workers[w].pc = "done"
    /\ \/ /\ closer = "wait"
          /\ resultChan' = [resultChan EXCEPT !.closed = TRUE]
          /\ closer' = "closeError"
          /\ UNCHANGED errorChan
       \/ /\ closer = "closeError"
          /\ errorChan' = [errorChan EXCEPT !.closed = TRUE]
          /\ closer' = "done"
          /\ UNCHANGED resultChan
    /\ UNCHANGED <<fileChan, ctx, workers, feeder, collector, mainLoop, tailerVars>>

\* the caller returns: the deferred cancel() ends the context
Return(allEvents, err) ==
    /\ collector' = [collector EXCEPT !.pc = "returned", !.allEvents = allEvents, !.err = err,
                                      !.expired = ctx.expired]
    /\ ctx' = [ctx EXCEPT !.done = TRUE]

\* the caller collects: one receive from resultChan or errorChan for every
\* path, unless the context is done first
Collect ==
    /\ collector.pc = "collect"
    /\ IF collector.i = Len(filePaths)
       THEN /\ Return(collector.allEvents, "")
            /\ UNCHANGED <<resultChan, errorChan>>
       ELSE \/ /\ CanReceive(resultChan)
               /\ collector' = [collector EXCEPT
                      !.i = @ + 1,
                      !.allEvents = @ \o Received(resultChan, [path |-> "", events |-> <<>>]).events,
                      !.got = @ \cup {Received(resultChan, [path |-> "", events |-> <<>>]).path}]
               /\ resultChan' = AfterReceive(resultChan)
               /\ UNCHANGED <<errorChan, ctx>>
            \/ /\ CanReceive(errorChan)
               /\ collector' = [collector EXCEPT
                      !.i = @ + 1,
                      !.errors = Append(@, Received(errorChan, [path |-> "", err |-> "nil"]).err),
                      !.got = @ \cup {Received(errorChan, [path |-> "", err |-> "nil"]).path}]
               /\ errorChan' = AfterReceive(errorChan)
               /\ UNCHANGED <<resultChan, ctx>>
            \/ /\ ctx.done
               /\ Return(collector.allEvents, "timeout")
               /\ UNCHANGED <<resultChan, errorChan>>
    /\ UNCHANGED <<fileChan, workers, feeder, closer, mainLoop, tailerVars>>

\* the main loop of main: after an error the events returned are left aside,
\* otherwise they are sent to the workers that process them
MainLoop ==
    /\ collector.pc = "returned"
    /\ mainLoop.pc = "collect"
    /\ mainLoop' = [pc |-> "sent",
                    events |-> IF collector.err # "" THEN <<>> ELSE collector.allEvents]
    /\ UNCHANGED <<fileChan, resultChan, errorChan, ctx, workers, feeder, closer, collector,
                   tailerVars>>

\* a cycle begins: the channels are made and the goroutines started, with
\* config.MaxWorkers from 1 to MaxWorkers
CycleInit ==
    /\ AlertInit
    /\ ClassifierIdle
    /\ PoolIdle
    /\ files = CycleFiles
    /\ offsets = [p \in DOMAIN CycleFiles |-> ""]
    /\ scan = [p \in DOMAIN CycleFiles |->
                  [op |-> "none", events |-> <<>>, err |-> "", saved |-> FALSE,
                   before |-> "", rescan |-> FALSE, settled |-> FALSE,
                   failure |-> "", complete |-> FALSE]]
    /\ fileChan = NewChan
    /\ resultChan = NewChan
    /\ errorChan = NewChan
    /\ ctx = [done |-> FALSE, expired |-> FALSE]
    /\ config \in {[MaxWorkers |-> n] : n \in 1..MaxWorkers}
    /\ workers = [w \in 1..workerCount(config.MaxWorkers) |->
                     [pc |-> "select", path |-> "", events |-> <<>>]]
    /\ reads = [p \in DOMAIN CycleFiles |-> 0]
    /\ feeder = 0
    /\ closer = "wait"
    /\ collector = [pc |-> "collect", i |-> 0, allEvents |-> <<>>, errors |-> <<>>,
                    err |-> "", got |-> {}, expired |-> FALSE]
    /\ mainLoop = [pc |-> "collect", events |-> <<>>]

CycleNext ==
    /\ UNCHANGED alertVars
    /\ UNCHANGED classifierVars
    /\ UNCHANGED poolVars
    /\ \/ Deadline /\ UNCHANGED <<config, reads>>
       \/ FeederStep /\ UNCHANGED <<config, reads>>
       \/ \E w \in DOMAIN workers : WorkerReceive(w) /\ UNCHANGED <<config, reads>>
       \/ \E w \in DOMAIN workers : WorkerTimeout(w) /\ UNCHANGED <<config, reads>>
       \/ \E w \in DOMAIN workers, fault \in {"none", "open", "deadline"} : WorkerRead(w, fault)
       \/ \E w \in DOMAIN workers : WorkerSend(w) /\ UNCHANGED <<config, reads>>
       \/ CloserStep /\ UNCHANGED <<config, reads>>
       \/ Collect /\ UNCHANGED <<config, reads>>
       \/ MainLoop /\ UNCHANGED <<config, reads>>

SpecCycle == CycleInit /\ [][CycleNext]_vars

----------------------------------------------------------------------------
(* processor: MaskSensitiveInfo *)

\* [\w\.-]+@[\w\.-]+\.\w+
emailRegex ==
    Cat(<<Rep(OneOf(WordChars \cup {".", "-"}), 1, -1), Lit("@"),
          Rep(OneOf(WordChars \cup {".", "-"}), 1, -1), Lit("."),
          Rep(OneOf(WordChars), 1, -1)>>)

\* MaskSensitiveInfo, for a content without ':', '=', '.', '-', '?', '&',
\* "eyJ" and runs of 11 digits or more: of its rules only the one for e-mail
\* addresses can then find a match
MaskSensitiveInfo(content) == ReplaceAllString(emailRegex, content, "[EMAIL]", 1)

----------------------------------------------------------------------------
(* analyzer: SmartAnalyzer *)

\* the texts of the events the workers of main process
PoolTexts == {TextA, TextB, "oom 0x1f", "oom 0x2a"}

Masked == [t \in PoolTexts |-> MaskSensitiveInfo(t)]

\* strings.ReplaceAll: every occurrence of the string old in s, from
\* position i on, is replaced by new (old is not empty)
RECURSIVE ReplaceAll(_, _, _, _)
ReplaceAll(s, old, new, i) ==
    IF i > Len(s) THEN ""
    ELSE IF HasAt(s, i, old) THEN new \o ReplaceAll(s, old, new, i + Len(old))
    ELSE Char(s, i) \o ReplaceAll(s, old, new, i + 1)

\* SmartAnalyzer.normalizeContent: its patterns are handed to strings.ReplaceAll
\* and so are looked for as they are written, character by character
timestampPatterns ==
    <<"\\d{4}-\\d{2}-\\d{2}T\\d{2}:\\d{2}:\\d{2}",
      "\\d{4}-\\d{2}-\\d{2} \\d{2}:\\d{2}:\\d{2}",
      "\\d{2}/\\d{2}/\\d{4} \\d{2}:\\d{2}:\\d{2}">>

SmartAnalyzer_normalizeContent(content) ==
    LET t1 == ReplaceAll(content, timestampPatterns[1], "[TIMESTAMP]", 1)
        t2 == ReplaceAll(t1, timestampPatterns[2], "[TIMESTAMP]", 1)
        t3 == ReplaceAll(t2, timestampPatterns[3], "[TIMESTAMP]", 1)
        ids == ReplaceAll(t3, "\\b\\d{6,}\\b", "[ID]", 1)
    IN  ReplaceAll(ids, "0x[a-fA-F0-9]+", "[ADDR]", 1)

SmartNormalized == [t \in PoolTexts |-> SmartAnalyzer_normalizeContent(t)]

\* generateEventSignature: the MD5 digest of "path|content|score|tags". The
\* digest is modelled as injective: it is represented by the text it is computed from.
generateEventSignature(event) ==
    "md5(" \o event.FilePath \o "|" \o SmartNormalized[event.RawText] \o "|"
           \o FormatInt(event.SeverityScore) \o "|" \o Join(event.Tags, ",") \o ")"

\* strings.Fields: the words of s
RECURSIVE Fields(_)
Fields(s) ==
    IF s = "" THEN <<>>
    ELSE IF IsSpace(Char(s, 1)) THEN Fields(From(s, 2))
    ELSE LET n == IF \E i \in 1..Len(s) : IsSpace(Char(s, i))
                  THEN CHOOSE i \in 1..Len(s) :
                           /\ IsSpace(Char(s, i))
                           /\ \A j \in 1..(i - 1) : ~IsSpace(Char(s, j))
                  ELSE Len(s) + 1
         IN  <<SubSeq(s, 1, n - 1)>> \o Fields(From(s, n))

\* calculateContentSimilarity(content1, content2) > 0.7, the test of areEventsRelated
contentSimilar(content1, content2) ==
    LET words1 == Fields(ToLower(content1))
        words2 == Fields(ToLower(content2))
        commonWords == Cardinality({i \in 1..Len(words2) : words2[i] \in Range(words1)})
        totalWords == Len(words1) + Len(words2) - commonWords
    IN  IF Len(words1) = 0 \/ Len(words2) = 0 THEN FALSE
        ELSE IF totalWords = 0 THEN TRUE
        ELSE 20 * commonWords > 7 * totalWords

ContentSimilar == [t1 \in PoolTexts |-> [t2 \in PoolTexts |-> contentSimilar(t1, t2)]]

\* two events are related when they are of the same file, and only then
areEventsRelatedByFile(event1, event2) == event1.FilePath = event2.FilePath

\* areEventsRelated: the same file, a common tag, or similar contents
areEventsRelated(event1, event2) ==
    \/ event1.FilePath = event2.FilePath
    \/ Range(event1.Tags) \cap Range(event2.Tags) # {}
    \/ ContentSimilar[event1.RawText][event2.RawText]

\* the time window of findRelatedEvents and the TTL of the cache given to
\* NewSmartAnalyzer, in minutes
RelatedWindow == 5
CacheTTL == 30

\* findRelatedEvents: the signatures of the cached events related to the event at time t
relatedSignatures(c, event, t) ==
    {s \in DOMAIN c :
        /\ c[s].Event.EventID # event.EventID
        /\ ~(t - c[s].LastSeen > RelatedWindow)
        /\ areEventsRelated(event, c[s].Event)}

\* the orders in which a range over a map can visit the keys S
Orderings(S) ==
    {q \in [1..Cardinality(S) -> S] : \A i, j \in 1..Cardinality(S) : i # j => q[i] # q[j]}

\* findRelatedEvents: the identifiers it can return, one list for every order
\* in which the cache can be visited
findRelatedEvents(c, event, t) ==
    {[i \in 1..Len(q) |-> c[q[i]].Event.EventID] : q \in Orderings(relatedSignatures(c, event, t))}

\* enhanceEvent: the copy of the event handed on, with a context line naming the related events
enhanceEvent(event, relatedEventIDs) ==
    IF Len(relatedEventIDs) > 0
    THEN [event EXCEPT !.ContextLines =
              Append(@, "Related Events: " \o Join(relatedEventIDs, ", "))]
    ELSE event

\* relatedEvents[id], nil when the map has no such key
relatedOf(id) == IF id \in DOMAIN relatedEvents THEN relatedEvents[id] ELSE <<>>

----------------------------------------------------------------------------
(* main: the workers that process the events of eventChan *)

PoolWorkers == {1, 2}

\* the results of ai.Analyze
AiResults == {"r1"}

IdleWorker ==
    [pc |-> "idle", event |-> NoEvent, signature |-> "", exists |-> FALSE, isNew |-> FALSE,
     related |-> <<>>, aiResult |-> "", found |-> "", trace |-> <<>>]

\* the main loop sends the next event of the cycle to eventChan, and goes on
\* to the sweeps when there is no more
SendEvent ==
    /\ mainStep = "send"
    /\ IF toSend # <<>>
       THEN /\ eventChan' = Append(eventChan, Head(toSend))
            /\ loopEvent' = Head(toSend)
            /\ toSend' = Tail(toSend)
            /\ UNCHANGED mainStep
       ELSE /\ mainStep' = "cleanup"
            /\ UNCHANGED <<eventChan, toSend, loopEvent>>
    /\ UNCHANGED <<cfg, eventCache, relatedEvents, mutex, mu, pool, sightings, analyzed,
                   alertVars>>

\* stage 1: a worker receives an event from eventChan and masks its text. What
\* is sent is &event, the address of the variable of the sending loop: the
\* worker reads the event that was sent when every iteration has its own
\* variable, and the one sent last when the loop has one variable
Mask(w) ==
    /\ pool[w].pc = "idle"
    /\ eventChan # <<>>
    /\ eventChan' = Tail(eventChan)
    /\ \E event \in {Head(eventChan), loopEvent} :
          pool' = [pool EXCEPT ![w] =
                      [IdleWorker EXCEPT
                          !.pc = "analyze",
                          !.event = [event EXCEPT !.RawText = Masked[@]],
                          !.trace = <<"mask">>]]
    /\ UNCHANGED <<cfg, toSend, loopEvent, mainStep, eventCache, relatedEvents, mutex, mu, sightings, analyzed,
                   alertVars>>

\* AnalyzeEvent, the signature and the lookup in the cache
analyzeLookup(w) ==
    /\ pool[w].pc = "analyze"
    /\ mutex' = w
    /\ pool' = [pool EXCEPT ![w] =
                   [@ EXCEPT !.pc = "analyzeEnd",
                             !.signature = generateEventSignature(pool[w].event),
                             !.exists = generateEventSignature(pool[w].event) \in DOMAIN eventCache]]
    /\ UNCHANGED <<cfg, eventChan, toSend, loopEvent, mainStep, eventCache, relatedEvents, mu, sightings, analyzed,
                   alertVars>>

\* an AnalyzeEvent that does not wait for the mutex
AnalyzeBeginWithoutLock(w) == analyzeLookup(w)

\* stage 2, AnalyzeEvent: sa.mutex.Lock(), the signature and the lookup
AnalyzeBegin(w) == mutex = 0 /\ analyzeLookup(w)

\* where a worker goes on after AnalyzeEvent, whatever it returned
afterAnalyzeAlways(isNew) == "ai"

\* where a worker goes on after AnalyzeEvent: a repeat is skipped
afterAnalyze(isNew) == IF isNew THEN "ai" ELSE "idle"

\* stage 2, AnalyzeEvent: the entry is updated or created, the mutex is
\* released, and the worker goes on with what was returned
AnalyzeEnd(w) ==
    LET event == pool[w].event
        sig == pool[w].signature
        returns(isNew, relatedIDs, enhanced) ==
            /\ pool' = [pool EXCEPT ![w] =
                           [@ EXCEPT !.pc = afterAnalyze(isNew), !.isNew = isNew,
                                     !.related = relatedIDs, !.event = enhanced,
                                     !.trace = Append(@, "dedup")]]
            /\ analyzed' = [op |-> "AnalyzeEvent", event |-> event, signature |-> sig,
                            isNew |-> isNew, related |-> relatedIDs, enhanced |-> enhanced,
                            before |-> eventCache, sightingsBefore |-> sightings, at |-> now]
    IN  /\ pool[w].pc = "analyzeEnd"
        /\ mutex' = 0
        /\ IF pool[w].exists
           THEN /\ eventCache' = [s \in DOMAIN eventCache |->
                                     IF s = sig
                                     THEN [eventCache[s] EXCEPT !.LastSeen = now, !.Count = @ + 1]
                                     ELSE eventCache[s]]
                /\ sightings' = [s \in DOMAIN sightings |->
                               IF s = sig THEN [sightings[s] EXCEPT !.calls = @ + 1] ELSE sightings[s]]
                /\ UNCHANGED relatedEvents
                /\ returns(FALSE, relatedOf(event.EventID), event)
           ELSE LET created == [Event |-> event, FirstSeen |-> now, LastSeen |-> now,
                                Count |-> 1, Signature |-> sig]
                    c == [s \in DOMAIN eventCache \cup {sig} |->
                             IF s = sig THEN created ELSE eventCache[s]]
                IN  \E relatedIDs \in findRelatedEvents(c, event, now) :
                        /\ eventCache' = c
                        /\ relatedEvents' =
                               [id \in DOMAIN relatedEvents \cup {event.EventID} |->
                                   IF id = event.EventID THEN relatedIDs ELSE relatedEvents[id]]
                        /\ sightings' = [s \in DOMAIN sightings \cup {sig} |->
                                       IF s = sig
                                       THEN [related |-> relatedIDs,
                                             calls |-> IF s \in DOMAIN sightings
                                                       THEN sightings[s].calls + 1 ELSE 1,
                                             news |-> IF s \in DOMAIN sightings
                                                      THEN sightings[s].news + 1 ELSE 1]
                                       ELSE sightings[s]]
                        /\ returns(TRUE, relatedIDs, enhanceEvent(event, relatedIDs))
        /\ UNCHANGED <<cfg, eventChan, toSend, loopEvent, mainStep, mu, alertVars>>

\* stage 3: ai.Analyze returns a result, or an error and the event is left
Analyze(w) ==
    /\ pool[w].pc = "ai"
    /\ \/ \E aiResult \in AiResults :
             pool' = [pool EXCEPT ![w] =
                         [@ EXCEPT !.pc = IF cfg.ESEnable THEN "index"
                                          ELSE IF cfg.AlertEnable THEN "alert" ELSE "idle",
                                   !.aiResult = aiResult, !.trace = Append(@, "ai")]]
       \/ pool' = [pool EXCEPT ![w] = [@ EXCEPT !.pc = "idle", !.trace = Append(@, "ai")]]
    /\ UNCHANGED <<cfg, eventChan, toSend, loopEvent, mainStep, eventCache, relatedEvents, mutex, mu, sightings,
                   analyzed, alertVars>>

\* stage 5: esClient.IndexLog succeeds, or fails and the event is left
IndexLog(w) ==
    /\ pool[w].pc = "index"
    /\ \E ok \in BOOLEAN :
          pool' = [pool EXCEPT ![w] =
                      [@ EXCEPT !.pc = IF ok /\ cfg.AlertEnable THEN "alert" ELSE "idle",
                                !.trace = Append(@, "index")]]
    /\ UNCHANGED <<cfg, eventChan, toSend, loopEvent, mainStep, eventCache, relatedEvents, mutex, mu, sightings,
                   analyzed, alertVars>>

\* AddOrUpdate, the lookup by the key and the scan for a similar aggregate
alertLookup(w) ==
    LET event == pool[w].event
        key == generateAlertKey(event)
    IN  /\ pool[w].pc = "alert"
        /\ mu' = w
        /\ \E found \in IF key \in DOMAIN cache THEN {key}
                        ELSE IF similarKeys(cache, event) # {} THEN similarKeys(cache, event)
                        ELSE {""} :
              pool' = [pool EXCEPT ![w] = [@ EXCEPT !.pc = "alertEnd", !.found = found]]
        /\ UNCHANGED <<cfg, eventChan, toSend, loopEvent, mainStep, eventCache, relatedEvents, mutex, sightings,
                       analyzed, alertVars>>

\* an AddOrUpdate that does not wait for the mutex
AlertBeginWithoutLock(w) == alertLookup(w)

\* stage 6, AddOrUpdate: ac.mu.Lock() and the lookup
AlertBegin(w) == mu = 0 /\ alertLookup(w)

\* stage 6, AddOrUpdate: the aggregate is updated or created, and the mutex released
AlertEnd(w) ==
    LET event == pool[w].event
        key == generateAlertKey(event)
        found == pool[w].found
    IN  /\ pool[w].pc = "alertEnd"
        /\ mu' = 0
        /\ IF found = "" THEN CreateNew(key, event, pool[w].aiResult)
           ELSE IF found \in DOMAIN cache
           THEN MergeInto(found, event, pool[w].aiResult, IF found = key THEN "exact" ELSE "fuzzy")
           ELSE UNCHANGED <<cache, hist, last>>
        /\ pool' = [pool EXCEPT ![w] = [@ EXCEPT !.pc = "idle", !.trace = Append(@, "alert")]]
        /\ UNCHANGED <<cfg, eventChan, toSend, loopEvent, mainStep, eventCache, relatedEvents, mutex, sightings,
                       analyzed, now>>

\* CleanupExpiredEvents, under the mutex of the analyzer
CleanupExpiredEvents ==
    LET gone == {s \in DOMAIN eventCache : now - eventCache[s].LastSeen > CacheTTL}
        ids == {eventCache[s].Event.EventID : s \in gone}
    IN  /\ mainStep = "sweep"
        /\ mainStep' = "sleep"
        /\ mutex = 0
        /\ eventCache' = [s \in DOMAIN eventCache \ gone |-> eventCache[s]]
        /\ relatedEvents' = [id \in DOMAIN relatedEvents \ ids |-> relatedEvents[id]]
        /\ sightings' = [s \in DOMAIN sightings \ gone |-> sightings[s]]
        /\ analyzed' = [op |-> "CleanupExpiredEvents", before |-> eventCache, at |-> now]
        /\ UNCHANGED <<cfg, eventChan, toSend, loopEvent, mutex, mu, pool, alertVars>>

\* the main loop calls alertCache.Cleanup, which waits for the mutex of the
\* cache, if there is an alert cache
PoolCleanup ==
    /\ mainStep = "cleanup"
    /\ mainStep' = "sweep"
    /\ IF cfg.AlertEnable THEN mu = 0 /\ Cleanup ELSE UNCHANGED alertVars
    /\ UNCHANGED <<cfg, eventChan, toSend, loopEvent, eventCache, relatedEvents, mutex, mu, pool, sightings,
                   analyzed>>

\* time passes
PoolTick ==
    /\ Tick(MaxClock)
    /\ UNCHANGED <<cfg, eventChan, toSend, loopEvent, mainStep, eventCache, relatedEvents, mutex, mu, pool, sightings,
                   analyzed>>

\* an event as the collector hands it to main
PoolEvent(id, path, text, severity, tags) ==
    [EventID |-> id, Host |-> "h1", FilePath |-> path, RawText |-> text,
     SeverityScore |-> severity, Tags |-> tags, IsCellTrace |-> FALSE,
     ContextLines |-> <<"ctx">>]

\* the events of the cycles of SpecPool: an event and its repeat read a minute
\* later after another event of the file; two events whose texts differ in a
\* digit; two events whose texts differ in a memory address
Batches ==
    { <<PoolEvent("hash_b_0", PathA, TextB, 8, <<"err">>),
        PoolEvent("hash_a_0", PathA, TextA, 8, <<"err">>),
        PoolEvent("hash_a_60", PathA, TextA, 8, <<"err">>)>>,
      <<PoolEvent("hash_a_0", PathA, TextA, 8, <<"err">>),
        PoolEvent("hash_a_0", PathA, TextA, 8, <<"err">>)>>,
      <<PoolEvent("hash_c_0", PathB, "oom 0x1f", 10, <<"oom", "OOM">>),
        PoolEvent("hash_d_0", PathB, "oom 0x2a", 10, <<"oom", "OOM">>)>> }

PoolInit ==
    /\ AlertInit
    /\ ClassifierIdle
    /\ TailerInit
    /\ CycleIdle
    /\ cfg \in {[ESEnable |-> b, AlertEnable |-> b] : b \in BOOLEAN}
    /\ eventChan = <<>>
    /\ toSend \in Batches
    /\ loopEvent = NoEvent
    /\ mainStep = "send"
    /\ eventCache = <<>>
    /\ relatedEvents = <<>>
    /\ mutex = 0
    /\ mu = 0
    /\ pool = [w \in PoolWorkers |-> IdleWorker]
    /\ sightings = <<>>
    /\ analyzed = [op |-> "none"]
    /\ cancelled = FALSE
    /\ chanCloses = 0

PoolNext ==
    /\ UNCHANGED classifierVars
    /\ UNCHANGED tailerVars
    /\ UNCHANGED cycleVars
    /\ UNCHANGED <<cancelled, chanCloses>>
    /\ \/ SendEvent
       \/ \E w \in PoolWorkers : Mask(w)
       \/ \E w \in PoolWorkers : AnalyzeBegin(w)
       \/ \E w \in PoolWorkers : AnalyzeEnd(w)
       \/ \E w \in PoolWorkers : Analyze(w)
       \/ \E w \in PoolWorkers : IndexLog(w)
       \/ \E w \in PoolWorkers : AlertBegin(w)
       \/ \E w \in PoolWorkers : AlertEnd(w)
       \/ CleanupExpiredEvents
       \/ PoolCleanup
       \/ PoolTick

SpecPool == PoolInit /\ [][PoolNext]_vars

----------------------------------------------------------------------------
(* The claims about the alert aggregator *)

\* the last step was a call of AddOrUpdate that merged the event into an
\* aggregate that existed before the call
Merged == last.op = "AddOrUpdate" /\ last.key \in DOMAIN last.before

\* the last step was a call of AddOrUpdate that created an aggregate
Created == last.op = "AddOrUpdate" /\ last.key \notin DOMAIN last.before

\* the last call merged an event flagged cell-trace into an aggregate that was
\* not flagged: the send the flag forces
Forced == Merged /\ last.event.IsCellTrace /\ ~last.before[last.key].IsCellTrace

\* the last call merged into an aggregate that had a send before, and
\* SinceLastSend minutes have passed since it
HadSend == Merged /\ last.sentBefore # NoSend

SinceLastSend == now - last.sentBefore[1]

\* the number of occurrences in the aggregate the last call touched, the call included
Occurrence == Len(hist[last.key].sevs)

\* the aggregates of c the event can be merged into: the same host, the same
\* file path and a content at least 90% similar
Similar(c, event) ==
    {k \in DOMAIN c :
        /\ c[k].Host = event.Host
        /\ c[k].FilePath = event.FilePath
        /\ SimilarEnough[event.RawText][c[k].Content]}

\* C1: after the always-sent first occurrences of an aggregate, an occurrence of
\* severity >= 8 is sent if and only if at least 5 minutes have passed since the
\* last actual send of the aggregate, and an occurrence of severity 5 to 7 if and
\* only if at least 10 minutes have passed
C1_ResendAfterCadence ==
    HadSend =>
        /\ (last.event.SeverityScore >= 8 /\ Occurrence > 3)
              => (last.send <=> SinceLastSend >= 5)
        /\ (last.event.SeverityScore \in 5..7 /\ Occurrence > 2)
              => (last.send <=> SinceLastSend >= 10)

\* C2: under one alert key and with no deletion in between, each of the first 3
\* occurrences of severity >= 8 and each of the first 2 occurrences of severity
\* 5 to 7 yields send = true
C2_FirstOccurrencesSent ==
    last.op = "AddOrUpdate" =>
        /\ (last.event.SeverityScore >= 8 /\ Occurrence <= 3) => last.send
        /\ (last.event.SeverityScore \in 5..7 /\ Occurrence <= 2) => last.send

\* the third occurrence of an aggregate, of severity >= 8, was sent
C2_Witness ==
    /\ Merged
    /\ last.event.SeverityScore >= 8
    /\ Occurrence = 3
    /\ last.send

\* C3: for an existing aggregate and an incoming severity < 5, AddOrUpdate returns
\* send = true when the resulting count is a multiple of 10 and when at least 30
\* minutes have passed since the previous send, and send = false otherwise
\* (stated for the calls in which the cell-trace flag forces no send)
C3_LowSeverityCadence ==
    (Merged /\ last.event.SeverityScore < 5 /\ ~Forced) =>
        (last.send <=> \/ last.alert.Count % 10 = 0
                       \/ (last.sentBefore # NoSend /\ SinceLastSend >= 30))

\* C4: a call that creates a brand-new aggregate returns send = true if the
\* severity is >= 5, for a severity < 5 it returns send = true if and only if the
\* event is flagged cell-trace, and the new aggregate has Count = 1
C4_NewAggregate ==
    Created =>
        /\ last.event.SeverityScore >= 5 => last.send
        /\ last.event.SeverityScore < 5 => (last.send <=> last.event.IsCellTrace)
        /\ cache[last.key].Count = 1
        /\ last.alert.Count = 1

\* a new aggregate was created for an event of low severity flagged cell-trace,
\* and it was sent
C4_Witness ==
    /\ Created
    /\ last.event.SeverityScore < 5
    /\ last.event.IsCellTrace
    /\ last.send

\* C5: an event with no exact key match, for which an aggregate of the same host
\* and file path with a content similarity >= 90% exists, is merged into such an
\* aggregate (Count increases by 1) and the number of aggregates is unchanged
C5_FuzzyMerge ==
    (/\ last.op = "AddOrUpdate"
     /\ generateAlertKey(last.event) \notin DOMAIN last.before
     /\ Similar(last.before, last.event) # {}) =>
        /\ DOMAIN cache = DOMAIN last.before
        /\ last.key \in Similar(last.before, last.event)
        /\ cache[last.key].Count = last.before[last.key].Count + 1
        /\ \A k \in DOMAIN cache \ {last.key} : cache[k] = last.before[k]

\* a near-duplicate was merged into an aggregate with another key, whose Count
\* became 2
C5_Witness ==
    /\ Merged
    /\ generateAlertKey(last.event) # last.key
    /\ last.before[last.key].Count = 1
    /\ cache[last.key].Count = 2

\* Cleanup deletes exactly the aggregates last seen more than the TTL ago and
\* leaves the others unchanged
CleanupDeletesExpired ==
    last.op = "Cleanup" =>
        /\ DOMAIN cache = {k \in DOMAIN last.before : now - last.before[k].LastAlertAt <= 5}
        /\ \A k \in DOMAIN cache : cache[k] = last.before[k]

\* the last call was an occurrence of a key whose aggregate Cleanup had deleted
Reoccurrence ==
    /\ last.op = "AddOrUpdate"
    /\ generateAlertKey(last.event) \notin DOMAIN last.before
    /\ generateAlertKey(last.event) \in DOMAIN hist
    /\ hist[generateAlertKey(last.event)].deletions > 0

\* the last call created an aggregate with Count = 1 under the key of its event
BrandNew ==
    /\ generateAlertKey(last.event) \in DOMAIN cache
    /\ cache[generateAlertKey(last.event)].Count = 1
    /\ generateAlertKey(last.event) \notin DOMAIN last.before

\* C6, as stated: Cleanup deletes exactly the aggregates last seen more than the
\* TTL ago, and an occurrence of a key whose aggregate was deleted creates a
\* brand-new aggregate with Count = 1
C6_Original ==
    /\ CleanupDeletesExpired
    /\ Reoccurrence => BrandNew

\* C6, amended: Cleanup deletes exactly the aggregates last seen more than the TTL
\* ago, and an occurrence of a key whose aggregate was deleted creates a brand-new
\* aggregate with Count = 1 unless an aggregate of the same host and file path
\* with a content similarity >= 90% exists, into which it is merged
C6_CleanupAndReoccurrence ==
    /\ CleanupDeletesExpired
    /\ Reoccurrence =>
          IF Similar(last.before, last.event) = {}
          THEN BrandNew
          ELSE /\ last.key \in Similar(last.before, last.event)
               /\ DOMAIN cache = DOMAIN last.before

\* the aggregate of a key was deleted and an occurrence of the key created it anew
C6_Witness ==
    /\ Reoccurrence
    /\ BrandNew
    /\ last.key = generateAlertKey(last.event)

\* the maximum and the sum of a sequence of severities
RECURSIVE SeqMax(_)
SeqMax(q) ==
    IF Len(q) = 1 THEN q[1]
    ELSE IF q[1] >= SeqMax(Tail(q)) THEN q[1] ELSE SeqMax(Tail(q))

RECURSIVE SeqSum(_)
SeqSum(q) == IF q = <<>> THEN 0 ELSE q[1] + SeqSum(Tail(q))

\* C7: after k >= 1 occurrences merged into one aggregate, the aggregate has
\* Count = k, Severity = the maximum and TotalScore = the sum of the k incoming
\* severities, the Content and the analysis text of the latest occurrence, and
\* FirstAlertAt <= LastAlertAt
C7_AggregateFields ==
    /\ \A k \in DOMAIN cache :
          /\ cache[k].Count = Len(hist[k].sevs)
          /\ cache[k].Count >= 1
          /\ cache[k].Severity = SeqMax(hist[k].sevs)
          /\ cache[k].TotalScore = SeqSum(hist[k].sevs)
          /\ cache[k].FirstAlertAt <= cache[k].LastAlertAt
    /\ last.op = "AddOrUpdate" =>
          /\ cache[last.key].Content = last.event.RawText
          /\ cache[last.key].AiResult = last.aiResult
          /\ cache[last.key].LastAlertAt = now

\* three occurrences were merged, the latest by similarity and with a severity
\* below the maximum, some time after the first
C7_Witness ==
    /\ Merged
    /\ generateAlertKey(last.event) # last.key
    /\ cache[last.key].Count = 3
    /\ last.event.SeverityScore < cache[last.key].Severity
    /\ cache[last.key].FirstAlertAt < cache[last.key].LastAlertAt

\* C8: the context lines of every aggregate are at most 20 and hold no line twice
C8_ContextLinesBounded ==
    \A k \in DOMAIN cache :
        /\ Len(cache[k].ContextLines) <= 20
        /\ \A i, j \in 1..Len(cache[k].ContextLines) :
              cache[k].ContextLines[i] = cache[k].ContextLines[j] => i = j

----------------------------------------------------------------------------
(* The claims about the severity classifier *)

----------------------------------------------------------------------------
(* The claims about the tailer *)

\* C10: after a scan of a file has succeeded and stored its offset, a scan of
\* the file with no byte appended since returns no event and leaves the
\* stored offset as it was.
C10_RescanIdempotent ==
    \A p \in ScanPaths :
        scan[p].op = "Scan" /\ scan[p].rescan
            => scan[p].events = <<>> /\ offsets[p] = scan[p].before

\* the offset stored for the path, as the next scan will load it
StoredOffset(p) == loadOffset(offsets[p])

\* C14: a scan that ends with an error (open, read) or that the deadline
\* cancels leaves the stored offset of the path as it was, and a scan changes
\* the stored offset only when it has read the file to its end.
C14_OffsetOnlyAfterFullScan ==
    \A p \in ScanPaths :
        scan[p].op = "Scan"
            => /\ scan[p].failure # "" => offsets[p] = scan[p].before
               /\ offsets[p] # scan[p].before => scan[p].complete

\* C15: a scan never stores an offset below the one stored before, it stores
\* one only when it ends without error, and the scan of a file that has
\* shrunk to or below the stored offset returns no event and leaves the offset.
C15_OffsetMonotonic ==
    \A p \in ScanPaths :
        scan[p].op = "Scan"
            => /\ StoredOffset(p) >= loadOffset(scan[p].before)
               /\ offsets[p] # scan[p].before => scan[p].err = "" /\ scan[p].saved
               /\ Len(files[p]) <= loadOffset(scan[p].before)
                    => scan[p].events = <<>> /\ offsets[p] = scan[p].before

\* a scan has met a file that had shrunk below the stored offset and grown
\* again, not beyond that offset, and has returned without error
C15_Witness ==
    \E p \in ScanPaths :
        /\ scan[p].op = "Scan" /\ scan[p].err = "" /\ scan[p].failure = ""
        /\ 0 < Len(files[p]) /\ Len(files[p]) < loadOffset(scan[p].before)

----------------------------------------------------------------------------
(* The claims about the scan cycle *)

\* every event of evs is in the list
ContainsAll(list, evs) == \A i \in 1..Len(evs) : \E j \in 1..Len(list) : list[j] = evs[i]

\* the paths of the cycle
CyclePaths == {filePaths[i] : i \in 1..Len(filePaths)}

\* the scan of the path in this cycle stored a new offset
Persisted(p) == scan[p].op = "Scan" /\ scan[p].saved /\ offsets[p] # scan[p].before

\* C11: once the main loop has dealt with what ReadNewLogEventsWithConfig
\* returned, the events of every file whose new offset was stored in the cycle
\* are in the list returned and were sent to the processing workers, whether
\* or not the cycle ended with a timeout error
C11_ResultsNeverDropped ==
    mainLoop.pc = "sent"
        => \A p \in CyclePaths :
               Persisted(p) => /\ ContainsAll(collector.allEvents, scan[p].events)
                               /\ ContainsAll(mainLoop.events, scan[p].events)

\* C12: when the deadline has passed before ReadNewLogEventsWithConfig returns
\* and the result of some file was not received by then, the error returned is
\* not nil
C12_TimeoutReported ==
    (collector.pc = "returned" /\ collector.expired /\ ~(CyclePaths \subseteq collector.got))
        => collector.err # ""

\* C13: when ReadNewLogEventsWithConfig returns in a cycle whose deadline has
\* not passed and in which a file could not be opened, the events of every
\* file that was scanned without an error are in the list returned
C13_FailureKeepsOthers ==
    (/\ collector.pc = "returned"
     /\ ~collector.expired
     /\ \E q \in CyclePaths : scan[q].op = "Scan" /\ scan[q].failure = "open")
        => \A p \in CyclePaths :
               (scan[p].op = "Scan" /\ scan[p].err = "")
                   => ContainsAll(collector.allEvents, scan[p].events)

----------------------------------------------------------------------------
(* The claims about the deduplication and the workers of main *)

\* the last call of AnalyzeEvent that returned met an entry with its signature
Repeat == analyzed.op = "AnalyzeEvent" /\ analyzed.signature \in DOMAIN analyzed.before

\* C16: a call of AnalyzeEvent whose signature is in the cache returns isNew =
\* false, sets LastSeen of the entry to the time of the call, adds exactly 1 to
\* its Count, adds no entry to the cache, and returns the list of related
\* events that was computed when the entry was created
C16_RepeatUpdatesEntry ==
    Repeat =>
        /\ ~analyzed.isNew
        /\ DOMAIN eventCache = DOMAIN analyzed.before
        /\ eventCache[analyzed.signature].LastSeen = analyzed.at
        /\ eventCache[analyzed.signature].Count = analyzed.before[analyzed.signature].Count + 1
        /\ analyzed.related = analyzed.sightingsBefore[analyzed.signature].related

\* the variable parts of a text, as regular expressions: the timestamps
\* \d{4}-\d{2}-\d{2}[T ]\d{2}:\d{2}:\d{2} and \d{2}/\d{2}/\d{4} \d{2}:\d{2}:\d{2},
\* the numbers \b\d{6,}\b, the addresses 0x[a-fA-F0-9]+
VariableParts ==
    Alt(<<Cat(<<DigitsN(4), Lit("-"), DigitsN(2), Lit("-"), DigitsN(2), OneOf({"T", " "}),
                ClockTime>>),
          Cat(<<DigitsN(2), Lit("/"), DigitsN(2), Lit("/"), DigitsN(4), Lit(" "), ClockTime>>),
          Cat(<<WordBoundary, Rep(OneOf(Digits), 6, -1), WordBoundary>>),
          hexPattern>>)

\* the texts of the model with their variable parts replaced
Stable == [t \in PoolTexts |-> ReplaceAllString(VariableParts, t, "[X]", 1)]

\* the events are of the same file, with equal severity and tags, and their
\* texts differ in variable parts only
SameButVariableParts(event1, event2) ==
    /\ event1.FilePath = event2.FilePath
    /\ event1.SeverityScore = event2.SeverityScore
    /\ event1.Tags = event2.Tags
    /\ Stable[event1.RawText] = Stable[event2.RawText]

\* C17: an event that differs only in variable parts of its text from an
\* event cached within the TTL has the signature of that event, and
\* AnalyzeEvent returns isNew = false for it
C17_VariablePartsIgnored ==
    analyzed.op = "AnalyzeEvent" =>
        \A s \in DOMAIN analyzed.before :
            (/\ SameButVariableParts(analyzed.before[s].Event, analyzed.event)
             /\ analyzed.at - analyzed.before[s].LastSeen <= CacheTTL)
                => analyzed.signature = s /\ ~analyzed.isNew

\* the stages an event goes through under the configuration
Stages ==
    <<"mask", "dedup", "ai">> \o (IF cfg.ESEnable THEN <<"index">> ELSE <<>>)
                              \o (IF cfg.AlertEnable THEN <<"alert">> ELSE <<>>)

\* the stages worker w has begun for its event: the ones it has finished, and
\* the one it is in
Begun(w) ==
    pool[w].trace \o (IF pool[w].pc = "analyzeEnd" THEN <<"dedup">>
                      ELSE IF pool[w].pc = "alertEnd" THEN <<"alert">> ELSE <<>>)

\* C18: the stages begun for an event are the first stages of masking,
\* deduplication, AI analysis, indexing, alert aggregation in this order, each
\* begun after the one before it was finished; for an event AnalyzeEvent
\* reported as a repeat no stage after the deduplication is begun
C18_StagesInOrder ==
    \A w \in DOMAIN pool :
        /\ Len(Begun(w)) <= Len(Stages)
        /\ \A i \in 1..Len(Begun(w)) : Begun(w)[i] = Stages[i]
        /\ (Len(pool[w].trace) >= 2 /\ ~pool[w].isNew) => Begun(w) = <<"mask", "dedup">>

\* a worker has taken an event through every stage, and another one has left a repeat
C18_Witness ==
    \E v, w \in DOMAIN pool :
        /\ pool[v].trace = <<"mask", "dedup", "ai", "index", "alert">>
        /\ pool[w].trace = <<"mask", "dedup">> /\ ~pool[w].isNew /\ pool[w].pc = "idle"

\* C19: while Cleanup has deleted no aggregate of a key, the cache holds one
\* aggregate for the key whose Count is the number of calls of AddOrUpdate
\* merged under the key, and a call creates an aggregate only when the cache
\* held none for its key: of the calls for a key exactly the first creates
C19_AddOrUpdateAtomic ==
    /\ \A k \in DOMAIN hist :
           hist[k].deletions = 0 => k \in DOMAIN cache /\ cache[k].Count = hist[k].calls
    /\ (last.op = "AddOrUpdate" /\ last.path = "new") => last.key \notin DOMAIN last.before

\* two calls of AddOrUpdate for the same key are under way: one has found no
\* aggregate and holds the mutex, the other waits for it
C19_Witness ==
    \E v, w \in DOMAIN pool :
        /\ pool[v].pc = "alertEnd" /\ pool[v].found = ""
        /\ pool[w].pc = "alert"
        /\ generateAlertKey(pool[w].event) = generateAlertKey(pool[v].event)

\* C20: while no sweep has deleted the entry of a signature, the cache holds
\* one entry for it whose Count is the number of calls of AnalyzeEvent with
\* that signature, and exactly one of them returned isNew = true
C20_AnalyzeEventAtomic ==
    \A s \in DOMAIN sightings :
        /\ s \in DOMAIN eventCache
        /\ eventCache[s].Count = sightings[s].calls
        /\ sightings[s].news = 1

\* two calls of AnalyzeEvent with the same signature are under way: one has
\* found no entry and holds the mutex, the other waits for it
C20_Witness ==
    \E v, w \in DOMAIN pool :
        /\ pool[v].pc = "analyzeEnd" /\ ~pool[v].exists
        /\ pool[w].pc = "analyze"
        /\ generateEventSignature(pool[w].event) = pool[v].signature

----------------------------------------------------------------------------
(* collector: the identifier of an event *)

\* Regexp.FindStringSubmatch for the expression prefix(group)suffix: whether s
\* has a match, and the text of the group in the leftmost match, with the
\* choices the backtracking prefers
FindStringSubmatch(prefix, group, suffix, s) ==
    LET whole == Cat(<<prefix, group, suffix>>)
        starts == {i \in 1..(Len(s) + 1) : Ends(whole, s, i) # <<>>}
        i == CHOOSE j \in starts : \A k \in starts : j <= k
        pes == Ends(prefix, s, i)
        closes(ges) == {k \in 1..Len(ges) : Ends(suffix, s, ges[k]) # <<>>}
        opens == {k \in 1..Len(pes) : closes(Ends(group, s, pes[k])) # {}}
        pk == CHOOSE j \in opens : \A k \in opens : j <= k
        ges == Ends(group, s, pes[pk])
        gk == CHOOSE j \in closes(ges) : \A k \in closes(ges) : j <= k
    IN  IF starts = {} THEN [found |-> FALSE, sub |-> ""]
        ELSE [found |-> TRUE, sub |-> SubSeq(s, pes[pk], ges[gk] - 1)]

\* [a-zA-Z0-9-_]
IdChars == Letters \cup Digits \cup {"-", "_"}

Nothing == Cat(<<>>)

\* (?i)name[_-]?id[:\s=]+([a-zA-Z0-9-_]+)
namedId(name) ==
    [prefix |-> Cat(<<LitFold(name), Rep(OneOf({"_", "-"}), 0, 1), LitFold("id"),
                      Rep(OneOf({":", "="} \cup SpaceChars), 1, -1)>>),
     group |-> Rep(OneOf(IdChars), 1, -1),
     suffix |-> Nothing]

\* extractEventID, its expressions in the order of their priority
idPatterns ==
    <<namedId("trace"), namedId("request"), namedId("session"), namedId("correlation"),
      namedId("transaction"),
      [prefix |-> Lit("["), group |-> Rep(OneOf(IdChars), 8, -1), suffix |-> Lit("]")],
      [prefix |-> Nothing, group |-> uuidPattern, suffix |-> Nothing]>>

\* the characters of a log line and their codes: 32 and 33, 35 to 91, 93 to
\* 95, 97 to 126 (the double quote, the backslash and the grave accent are in
\* no line of the model)
AsciiRuns ==
    <<[first |-> 32, chars |-> " !"],
      [first |-> 35, chars |-> "#$%&'()*+,-./0123456789:;<=>?@ABCDEFGHIJKLMNOPQRSTUVWXYZ["],
      [first |-> 93, chars |-> "]^_"],
      [first |-> 97, chars |-> "abcdefghijklmnopqrstuvwxyz{|}~"]>>

Ord(c) ==
    LET at == CHOOSE p \in {<<r, i>> : r \in 1..Len(AsciiRuns), i \in 1..64} :
                  /\ p[2] <= Len(AsciiRuns[p[1]].chars)
                  /\ Char(AsciiRuns[p[1]].chars, p[2]) = c
    IN  AsciiRuns[at[1]].first + at[2] - 1

\* the number of characters of the first line that generateContentBasedID hashes
HashedPrefix == 50

\* hash = hash*31 + uint32(c) in 32 bits, the hash held as its two halves
RECURSIVE hashFrom(_, _, _)
hashFrom(content, i, hash) ==
    IF i > Len(content) THEN hash
    ELSE LET lo == hash.lo * 31 + Ord(Char(content, i))
         IN  hashFrom(content, i + 1,
                      [hi |-> (hash.hi * 31 + (lo \div 65536)) % 65536, lo |-> lo % 65536])

HexChars == <<"0", "1", "2", "3", "4", "5", "6", "7", "8", "9", "a", "b", "c", "d", "e", "f">>

\* fmt.Sprintf("%x", n) for n < 65536, and in four digits
RECURSIVE FormatHex(_)
FormatHex(n) ==
    IF n < 16 THEN HexChars[n + 1] ELSE FormatHex(n \div 16) \o HexChars[(n % 16) + 1]

FormatHex4(n) ==
    HexChars[(n \div 4096) + 1] \o HexChars[((n \div 256) % 16) + 1]
    \o HexChars[((n \div 16) % 16) + 1] \o HexChars[(n % 16) + 1]

\* generateContentBasedID at the time unix (time.Now().Unix())
generateContentBasedID(ls, unix) ==
    IF ls = <<>> THEN "auto_" \o FormatInt(unix)
    ELSE LET content == IF Len(ls[1]) > HashedPrefix THEN SubSeq(ls[1], 1, HashedPrefix)
                        ELSE ls[1]
             hash == hashFrom(content, 1, [hi |-> 0, lo |-> 0])
         IN  "hash_"
             \o (IF hash.hi = 0 THEN FormatHex(hash.lo)
                 ELSE FormatHex(hash.hi) \o FormatHex4(hash.lo))
             \o "_" \o FormatInt(unix)

\* extractEventID, the loops over the lines and the expressions: the first
\* identifier of 6 characters or more, "" when there is none
RECURSIVE explicitID(_, _, _)
explicitID(ls, l, p) ==
    IF l > Len(ls) THEN ""
    ELSE IF p > Len(idPatterns) THEN explicitID(ls, l + 1, 1)
    ELSE LET matches == FindStringSubmatch(idPatterns[p].prefix, idPatterns[p].group,
                                           idPatterns[p].suffix, ls[l])
         IN  IF matches.found /\ Len(TrimSpace(matches.sub)) >= 6
             THEN TrimSpace(matches.sub)
             ELSE explicitID(ls, l, p + 1)

\* extractEventID at the time unix
extractEventID(ls, unix) ==
    IF explicitID(ls, 1, 1) # "" THEN explicitID(ls, 1, 1)
    ELSE generateContentBasedID(ls, unix)

\* the text of s before and after the first occurrence of sep (s holds sep)
FirstIndex(s, sep) ==
    CHOOSE i \in 1..Len(s) : HasAt(s, i, sep) /\ \A j \in 1..(i - 1) : ~HasAt(s, j, sep)

BeforeFirst(s, sep) == IF Contains(s, sep) THEN SubSeq(s, 1, FirstIndex(s, sep) - 1) ELSE s

AfterFirst(s, sep) == From(s, FirstIndex(s, sep) + Len(sep))

\* strings.Fields(strings.Split(line, marker)[1])[0]: the first word after the
\* first marker and before the next one; the index is out of range (the
\* goroutine panics) when there is no word
markedID(line, marker) ==
    LET words == Fields(BeforeFirst(AfterFirst(line, marker), marker))
    IN  IF words = <<>> THEN [id |-> "", panics |-> TRUE]
        ELSE [id |-> words[1], panics |-> FALSE]

\* removeTimestamps
\* \d{4}-\d{2}-\d{2}T\d{2}:\d{2}:\d{2}[.\d]*[+-]\d{2}:\d{2}
\* |\d{4}-\d{2}-\d{2} \d{2}:\d{2}:\d{2}[,.]\d{3}|\w{3} \d{1,2} \d{2}:\d{2}:\d{2}
collectorTimestamp ==
    Alt(<<Cat(<<DigitsN(4), Lit("-"), DigitsN(2), Lit("-"), DigitsN(2), Lit("T"), ClockTime,
                Rep(OneOf(Digits \cup {"."}), 0, -1), OneOf({"+", "-"}), DigitsN(2),
                Lit(":"), DigitsN(2)>>),
          Cat(<<DigitsN(4), Lit("-"), DigitsN(2), Lit("-"), DigitsN(2), Lit(" "), ClockTime,
                OneOf({",", "."}), DigitsN(3)>>),
          Cat(<<Rep(OneOf(WordChars), 3, 3), Lit(" "), Rep(OneOf(Digits), 1, 2),
                Lit(" "), ClockTime>>)>>)

removeTimestamps(content) == ReplaceAllString(collectorTimestamp, content, "", 1)

\* collector.normalizeContent: timestamps removed, numbers replaced, lower
\* case, white space collapsed
collector_normalizeContent(content) ==
    TrimSpace(ReplaceAllString(SpaceRun,
        ToLower(ReplaceAllString(Number, removeTimestamps(content), "NUMBER", 1)), " ", 1))

\* generateStableID: the MD5 digest of the normalised content. The digest is
\* modelled as injective: it is represented by the text it is computed from.
generateStableID(content) == "md5(" \o collector_normalizeContent(content) \o ")"

\* ExtractEventID: the identifier after the first TraceID: or RequestID: of the
\* first line that holds one, else the stable identifier of the lines
RECURSIVE ExtractEventID(_, _)
ExtractEventID(ls, l) ==
    IF l > Len(ls)
    THEN [id |-> IF ls = <<>> THEN ""
                 ELSE generateStableID(removeTimestamps(Join(ls, "\n"))),
          panics |-> FALSE]
    ELSE IF Contains(ls[l], "TraceID:") THEN markedID(ls[l], "TraceID:")
    ELSE IF Contains(ls[l], "RequestID:") THEN markedID(ls[l], "RequestID:")
    ELSE ExtractEventID(ls, l + 1)

----------------------------------------------------------------------------
(* The specification of the identifiers: events are made of the spans below *)
(* at the times below, and their identifiers are resolved                   *)

MaxIdEvents == 2

MaxIdTime == 2

\* a line that differs from the others of its kind in its timestamp and in
\* the number of the process only
Timestamps ==
    {"2024-01-02T03:04:05Z", "2024-01-02T03:04:06Z", "2024-01-02 03:04:05,678",
     "2024-01-03 03:04:06,789"}

Pids == {"41", "42"}

Stamped(ts, pid) == ts \o " oom " \o pid

StampedLines == {Stamped(ts, pid) : ts \in Timestamps, pid \in Pids}

\* the lines of an event with a trace identifier and a request identifier:
\* the request in the line before, in the line after, and before the trace in
\* one line
BothMarkers ==
    { <<"RequestID: req-0001", "TraceID: abc123">>,
      <<"TraceID: abc123", "RequestID: req-0001">>,
      <<"RequestID: req-0001 TraceID: abc123">> }

\* a trace identifier of 3 characters before a request identifier
ShortTrace == <<"TraceID: ab1 RequestID: req-0001">>

\* the lines of an event: with the marker TraceID: abc123 alone, inside a line,
\* followed by more characters of an identifier, after a line with a token in
\* brackets, with a request identifier, with a marker that nothing follows,
\* with a UUID; and without any identifier
IdSpans ==
    { <<"TraceID: abc123">>,
      <<"x TraceID: abc123 y">>,
      <<"TraceID: abc123-9">>,
      <<"[req-00042] up", "TraceID: abc123">>,
      <<"RequestID: r1", "TraceID: abc123">>,
      <<"TraceID:", "TraceID: abc123">>,
      <<"550e8400-e29b-41d4-a716-446655440000", "TraceID: abc123">>,
      <<"Fail">> }
    \cup {<<l>> : l \in StampedLines}
    \cup BothMarkers \cup {ShortTrace}

\* the identifiers of the spans, but for the time (tabulated)
ExplicitIDs == [ls \in IdSpans |-> explicitID(ls, 1, 1)]

EventIDs == [ls \in IdSpans |-> [unix \in 1..MaxIdTime |-> extractEventID(ls, unix)]]

NormalizedTexts == [ls \in IdSpans |-> collector_normalizeContent(Join(ls, "\n"))]

MarkedIDs == [ls \in IdSpans |-> ExtractEventID(ls, 1)]

ContentHashes == [ls \in IdSpans |-> "md5(" \o normalizeContent(Join(ls, "\n")) \o ")"]

\* toLogEventWithContext at the time unix, the fields an identifier depends
\* on: EventID as extractEventID resolves it, StableID as ExtractEventID does,
\* ContentHash as getContentHash of package alert computes it; fallback: no
\* explicit identifier was found
identified(ls, unix) ==
    [RawLines |-> ls,
     RawText |-> Join(ls, "\n"),
     EventID |-> EventIDs[ls][unix],
     StableID |-> MarkedIDs[ls],
     ContentHash |-> ContentHashes[ls],
     fallback |-> ExplicitIDs[ls] = "",
     at |-> unix]

Identify(ls, unix) ==
    /\ Len(events) < MaxIdEvents
    /\ lines' = ls
    /\ events' = Append(events, identified(ls, unix))

IdNext ==
    /\ \E ls \in IdSpans, unix \in 1..MaxIdTime : Identify(ls, unix)
    /\ UNCHANGED alertVars /\ UNCHANGED tailerVars /\ UNCHANGED cycleVars
    /\ UNCHANGED poolVars

SpecId == Init /\ [][IdNext]_vars

\* the events whose lines hold the marker
Marked(marker) ==
    {i \in 1..Len(events) :
        \E l \in 1..Len(events[i].RawLines) : Contains(events[i].RawLines[l], marker)}

\* C21: an event with the text "TraceID: abc123" in one of its lines has the
\* identifier abc123, whatever else its lines hold
C21_TraceIdResolved ==
    \A i \in Marked("TraceID: abc123") :
        /\ events[i].EventID = "abc123"
        /\ events[i].StableID = [id |-> "abc123", panics |-> FALSE]

\* C22: two events without an explicit identifier and with the same normalised
\* text have the same identifier, whenever they are resolved, and no event has
\* an empty identifier
C22_FallbackByContentOnly ==
    /\ \A i, j \in 1..Len(events) :
           (/\ events[i].fallback /\ events[j].fallback
            /\ NormalizedTexts[events[i].RawLines] = NormalizedTexts[events[j].RawLines])
           => events[i].EventID = events[j].EventID
    /\ \A i \in 1..Len(events) : events[i].EventID # ""

\* C23: two events without an explicit identifier that differ in a timestamp
\* and in the number of a process only have the same fallback identifier and
\* the same content hash in their alert keys
C23_StampAndPidIgnored ==
    \A i, j \in 1..Len(events) :
        (/\ Len(events[i].RawLines) = 1 /\ events[i].RawLines[1] \in StampedLines
         /\ Len(events[j].RawLines) = 1 /\ events[j].RawLines[1] \in StampedLines)
        => /\ events[i].StableID = events[j].StableID
           /\ events[i].ContentHash = events[j].ContentHash

----------------------------------------------------------------------------
(* The specification of the segmentation: the lines read in one scan are    *)
(* cut into events, with config.ContextLines lines of context               *)

MaxSegLines == 3

MaxContext == 2

\* the lines of a log: a trigger, a normal line, a stack frame, a stack-frame
\* marker with a trigger keyword, the first and the last line of a kernel call
\* trace, a blank line, a trigger of the cell-trace class
SegLines ==
    {"Fail", "ok", "\tat com.x", "Caused by: Error 5", "Call Trace:", "</TASK>", "",
     "Cell Trace error"}

\* the lines of the scan are cut into events; last records the call
Segment(n) ==
    /\ last.op # "readFromFileWithContext"
    /\ events' = segmentWith(lines, 1,
                             [buffer |-> <<>>, matched |-> FALSE, matchStartLine |-> 0,
                              lastErrorLine |-> "", events |-> <<>>],
                             PathA, n)
    /\ last' = [op |-> "readFromFileWithContext", ContextLines |-> n]
    /\ UNCHANGED <<now, cache, hist, lines>>

SegInit ==
    /\ AlertInit
    /\ TailerInit
    /\ CycleIdle
    /\ PoolIdle
    /\ lines \in SeqsUpTo(SegLines, MaxSegLines)
    /\ events = <<>>

SegNext ==
    /\ \E n \in 1..MaxContext : Segment(n)
    /\ UNCHANGED tailerVars /\ UNCHANGED cycleVars /\ UNCHANGED poolVars

SpecSegment == SegInit /\ [][SegNext]_vars

Segmented == last.op = "readFromFileWithContext"

\* the lines of the scan from line a to line b, clipped at its boundaries
Clip(a, b) == SubSeq(lines, max(a, 1), IF b > Len(lines) THEN Len(lines) ELSE b)

\* the last line of the event's span, the span being lines that follow each other
SpanEnd(event) == event.LineNumber + Len(event.RawLines) - 1

Contiguous(event) == event.RawLines = Clip(event.LineNumber, SpanEnd(event))

\* C24: the context of an event is the N lines before the first line of its
\* span and the N lines after the last line of its span, as far as the lines
\* of the scan go, and no line of the span
C24_ContextAroundSpan ==
    Segmented =>
        \A i \in 1..Len(events) :
            Contiguous(events[i]) =>
                events[i].ContextLines
                    = Clip(events[i].LineNumber - last.ContextLines, events[i].LineNumber - 1)
                      \o Clip(SpanEnd(events[i]) + 1, SpanEnd(events[i]) + last.ContextLines)

\* the blocks of the scan: a line Call Trace: at a and the next line </TASK> at b
Blocks ==
    {p \in (1..Len(lines)) \X (1..Len(lines)) :
        /\ p[1] < p[2]
        /\ lines[p[1]] = "Call Trace:"
        /\ lines[p[2]] = "</TASK>"
        /\ \A k \in (p[1] + 1)..(p[2] - 1) : lines[k] \notin {"Call Trace:", "</TASK>"}}

\* C25: the lines from Call Trace: to </TASK> are the raw lines of one event,
\* and none of them is in another event
C25_CallTraceBlockIsOneEvent ==
    Segmented =>
        \A p \in Blocks :
            \E i \in 1..Len(events) :
                /\ events[i].LineNumber = p[1]
                /\ events[i].RawLines = Clip(p[1], p[2])
                /\ \A j \in 1..Len(events) :
                       j # i => SpanEnd(events[j]) < p[1] \/ events[j].LineNumber > p[2]

\* C29: when the first line opens a span and the second line is not blank and
\* satisfies the inclusion predicate, the second line is the second raw line
\* of that event and opens no event, whether it holds a trigger keyword or not
C29_IncludedLineJoinsSpan ==
    (/\ Segmented
     /\ Len(lines) >= 2
     /\ isLineMatch(lines[1]).isMatch
     /\ shouldIncludeLine(lines[2], <<lines[1]>>))
    => /\ events # <<>>
       /\ Len(events[1].RawLines) >= 2
       /\ events[1].RawLines[2] = lines[2]
       /\ \A i \in 1..Len(events) : events[i].LineNumber # 2

\* how often the text is a line of seq, and a raw line of the events from the k-th on
CountIn(seq, text) == Cardinality({k \in 1..Len(seq) : seq[k] = text})

RECURSIVE RawCount(_, _)
RawCount(text, k) ==
    IF k > Len(events) THEN 0 ELSE CountIn(events[k].RawLines, text) + RawCount(text, k + 1)

\* C30: every line of the scan that is a trigger is a raw line of exactly one
\* event
C30_EveryTriggerInOneEvent ==
    Segmented =>
        \A k \in 1..Len(lines) :
            isLineMatch(lines[k]).isMatch => RawCount(lines[k], 1) = CountIn(lines, lines[k])

----------------------------------------------------------------------------
(* The send that the cell-trace flag forces *)

\* the key of the event but for the prefix of the cell-trace flag
baseKey(event) == generateAlertKey([event EXCEPT !.IsCellTrace = FALSE])

----------------------------------------------------------------------------
(* The workers of a scan cycle *)

\* the workers that are reading a file
Reading == {w \in DOMAIN workers : workers[w].pc = "read"}

\* C27: no more than min(MaxWorkers, number of paths) files are read at the
\* same time; no path is read by two workers at once or twice in the cycle,
\* and every path is read once when the cycle returns before its deadline
C27_BoundedWorkersOneReaderPerPath ==
    /\ Cardinality(Reading) <= config.MaxWorkers
    /\ Cardinality(Reading) <= Len(filePaths)
    /\ \A v, w \in Reading : v # w => workers[v].path # workers[w].path
    /\ \A p \in DOMAIN reads : reads[p] <= 1
    /\ (collector.pc = "returned" /\ ~collector.expired) => \A p \in DOMAIN reads : reads[p] = 1

\* with MaxWorkers = 1 and two paths, the worker reads one file while the
\* other path waits in the queue
C27_Witness ==
    /\ config.MaxWorkers < Len(filePaths)
    /\ Cardinality(Reading) = config.MaxWorkers
    /\ fileChan.buf # <<>>

----------------------------------------------------------------------------
(* main: the exit after a signal. The goroutine that waits for SIGINT or    *)
(* SIGTERM cancels the context; the main loop returns when it finds the     *)
(* context done, and with the return of main the process and its workers    *)
(* end.                                                                     *)

\* a signal arrives: cancel()
Signal ==
    /\ ~cancelled
    /\ mainStep # "exited"
    /\ cancelled' = TRUE
    /\ UNCHANGED <<cfg, eventChan, toSend, loopEvent, mainStep, eventCache, relatedEvents,
                   mutex, mu, pool, sightings, analyzed, chanCloses, alertVars>>

\* the main loop, about to send an event, takes the case <-ctx.Done() of its
\* select: main returns
ExitWhileSending ==
    /\ cancelled
    /\ mainStep = "send"
    /\ toSend # <<>>
    /\ mainStep' = "exited"
    /\ UNCHANGED <<cfg, eventChan, toSend, loopEvent, eventCache, relatedEvents, mutex, mu,
                   pool, sightings, analyzed, cancelled, chanCloses, alertVars>>

\* a main loop that closes eventChan when it finds the context done and goes
\* on with its loop
CloseAndGoOn ==
    /\ cancelled
    /\ mainStep = "sleep"
    /\ chanCloses < 2
    /\ chanCloses' = chanCloses + 1
    /\ UNCHANGED <<cfg, eventChan, toSend, loopEvent, mainStep, eventCache, relatedEvents,
                   mutex, mu, pool, sightings, analyzed, cancelled, alertVars>>

\* the main loop, at the select that begins its next cycle, finds the context
\* done: it closes eventChan, and main returns
ExitAtLoopStart ==
    /\ cancelled
    /\ mainStep = "sleep"
    /\ mainStep' = "exited"
    /\ chanCloses' = chanCloses + 1
    /\ UNCHANGED <<cfg, eventChan, toSend, loopEvent, eventCache, relatedEvents, mutex, mu,
                   pool, sightings, analyzed, cancelled, alertVars>>

\* the steps of the service until main has returned
ExitNext ==
    /\ UNCHANGED classifierVars
    /\ UNCHANGED tailerVars
    /\ UNCHANGED cycleVars
    /\ \/ Signal
       \/ ExitWhileSending
       \/ ExitAtLoopStart
       \/ mainStep # "exited" /\ SendEvent /\ UNCHANGED <<cancelled, chanCloses>>
       \/ mainStep # "exited" /\ UNCHANGED <<cancelled, chanCloses>> /\ \E w \in PoolWorkers : Mask(w)
       \/ mainStep # "exited" /\ UNCHANGED <<cancelled, chanCloses>> /\ \E w \in PoolWorkers : AnalyzeBegin(w)
       \/ mainStep # "exited" /\ UNCHANGED <<cancelled, chanCloses>> /\ \E w \in PoolWorkers : AnalyzeEnd(w)
       \/ mainStep # "exited" /\ UNCHANGED <<cancelled, chanCloses>> /\ \E w \in PoolWorkers : Analyze(w)
       \/ mainStep # "exited" /\ UNCHANGED <<cancelled, chanCloses>> /\ \E w \in PoolWorkers : IndexLog(w)
       \/ mainStep # "exited" /\ UNCHANGED <<cancelled, chanCloses>> /\ \E w \in PoolWorkers : AlertBegin(w)
       \/ mainStep # "exited" /\ UNCHANGED <<cancelled, chanCloses>> /\ \E w \in PoolWorkers : AlertEnd(w)
       \/ mainStep # "exited" /\ CleanupExpiredEvents /\ UNCHANGED <<cancelled, chanCloses>>
       \/ mainStep # "exited" /\ PoolCleanup /\ UNCHANGED <<cancelled, chanCloses>>

SpecExit == PoolInit /\ [][ExitNext]_vars

\* C28: when main has returned after a signal, no event is left in eventChan
\* and no worker is in the middle of an event
C28_GracefulExit ==
    mainStep = "exited" =>
        /\ eventChan = <<>>
        /\ \A w \in PoolWorkers : pool[w].pc = "idle"

----------------------------------------------------------------------------
(* The span of an event in the lines of the scan *)

\* the events of the scan begin at lines that increase
InLineOrder ==
    \A i \in 1..Len(events) :
        \A j \in 1..Len(events) : i < j => events[i].LineNumber < events[j].LineNumber

\* C31: the raw lines of every event are the lines of the scan from the
\* event's LineNumber (at least 1) on, one after the other with no line
\* between the first and the last left out, and the events are returned in
\* the order of their LineNumber
C31_SpanIsContiguousRun ==
    Segmented =>
        /\ \A i \in 1..Len(events) :
               /\ events[i].LineNumber >= 1
               /\ SpanEnd(events[i]) <= Len(lines)
               /\ Contiguous(events[i])
        /\ InLineOrder

----------------------------------------------------------------------------
(* analyzer: the calls of AnalyzeEvent and CleanupExpiredEvents, one after the other *)

MaxAnalyzed == 3
MaxAnalyzerClock == 31

\* the events handed to the analyzer: two events with the identifier of one
\* trace and different contents; an event of the file of the first; an event
\* of a third file that has a tag in common with the second; an event of a
\* fourth file without tags whose text is similar to the text of the first
AnalyzerEvents ==
    { PoolEvent("trace-1", PathA, TextA, 8, <<"err">>),
      PoolEvent("trace-1", PathB, "oom 0x1f", 10, <<"oom">>),
      PoolEvent("hash_b", PathA, TextB, 8, <<"err">>),
      PoolEvent("hash_c", "/c/x", "oom 0x2a", 10, <<"oom">>),
      PoolEvent("hash_d", "/d/x", TextB, 3, <<>>) }

\* the minutes that pass between two calls: the window of findRelatedEvents,
\* and what is left to the first minute after the TTL
AnalyzerSteps == {RelatedWindow, CacheTTL + 1 - RelatedWindow}

\* m[id], nil when the map has no such key
lookup(m, id) == IF id \in DOMAIN m THEN m[id] ELSE <<>>

\* AnalyzeEvent, the whole call under sa.mutex; events holds the events handed
\* to the analyzer so far, analyzed what the call met and returned
SmartAnalyzer_AnalyzeEvent(event) ==
    LET signature == generateEventSignature(event)
        returns(isNew, relatedIDs, enhanced) ==
            analyzed' = [op |-> "AnalyzeEvent", event |-> event, signature |-> signature,
                         isNew |-> isNew, related |-> relatedIDs, enhanced |-> enhanced,
                         before |-> eventCache, relatedBefore |-> relatedEvents, at |-> now]
    IN  /\ Len(events) < MaxAnalyzed
        /\ events' = Append(events, event)
        /\ IF signature \in DOMAIN eventCache
           THEN /\ eventCache' = [eventCache EXCEPT ![signature] =
                                     [@ EXCEPT !.LastSeen = now, !.Count = @ + 1]]
                /\ UNCHANGED relatedEvents
                /\ returns(FALSE, lookup(relatedEvents, event.EventID), event)
           ELSE LET cachedEvent == [Event |-> event, FirstSeen |-> now, LastSeen |-> now,
                                    Count |-> 1, Signature |-> signature]
                    c == [s \in DOMAIN eventCache \cup {signature} |->
                             IF s = signature THEN cachedEvent ELSE eventCache[s]]
                IN  \E relatedIDs \in findRelatedEvents(c, event, now) :
                        /\ eventCache' = c
                        /\ relatedEvents' =
                               [id \in DOMAIN relatedEvents \cup {event.EventID} |->
                                   IF id = event.EventID THEN relatedIDs ELSE relatedEvents[id]]
                        /\ returns(TRUE, relatedIDs, enhanceEvent(event, relatedIDs))
        /\ UNCHANGED <<now, lines>>

\* CleanupExpiredEvents, the whole call under sa.mutex
SmartAnalyzer_CleanupExpiredEvents ==
    LET gone == {s \in DOMAIN eventCache : now - eventCache[s].LastSeen > CacheTTL}
    IN  /\ analyzed.op # "CleanupExpiredEvents"
        /\ eventCache' = [s \in DOMAIN eventCache \ gone |-> eventCache[s]]
        /\ relatedEvents' =
               [id \in DOMAIN relatedEvents \ {eventCache[s].Event.EventID : s \in gone} |->
                   relatedEvents[id]]
        /\ analyzed' = [op |-> "CleanupExpiredEvents", before |-> eventCache,
                        relatedBefore |-> relatedEvents, at |-> now]
        /\ UNCHANGED <<now, lines, events>>

\* time passes between two calls
AnalyzerTick ==
    \E d \in AnalyzerSteps :
        /\ now + d <= MaxAnalyzerClock
        /\ now' = now + d
        /\ analyzed' = [op |-> "none"]
        /\ UNCHANGED <<lines, events, eventCache, relatedEvents>>

AnalyzerNext ==
    /\ UNCHANGED <<cache, last, hist>>
    /\ UNCHANGED tailerVars
    /\ UNCHANGED cycleVars
    /\ UNCHANGED <<cfg, eventChan, toSend, loopEvent, mainStep, mutex, mu, pool, sightings,
                   cancelled, chanCloses>>
    /\ \/ \E event \in AnalyzerEvents : SmartAnalyzer_AnalyzeEvent(event)
       \/ SmartAnalyzer_CleanupExpiredEvents
       \/ AnalyzerTick

SpecAnalyzer == Init /\ [][AnalyzerNext]_vars

\* the last call was AnalyzeEvent for an event with a signature that was not in the cache
NewSignature == analyzed.op = "AnalyzeEvent" /\ analyzed.signature \notin DOMAIN analyzed.before

\* the share of common words of the two texts is more than 0.7
Overlapping(text1, text2) == ContentSimilar[text1][text2]

\* C32: for an event with a new signature the list returned holds exactly the
\* identifiers of the cached events with another identifier that were last
\* seen within the last 5 minutes and are of the event's file, or have a tag
\* in common with it, or a text that overlaps with its text by more than
\* 0.7; the event's own identifier is never in the list
C32_RelatedAreCandidatesInWindow ==
    NewSignature =>
        /\ analyzed.isNew
        /\ Range(analyzed.related)
               = {analyzed.before[s].Event.EventID :
                     s \in {x \in DOMAIN analyzed.before :
                              /\ analyzed.before[x].Event.EventID # analyzed.event.EventID
                              /\ analyzed.at - analyzed.before[x].LastSeen <= 5
                              /\ \/ analyzed.before[x].Event.FilePath = analyzed.event.FilePath
                                 \/ \E tag \in Range(analyzed.event.Tags) :
                                        tag \in Range(analyzed.before[x].Event.Tags)
                                 \/ Overlapping(analyzed.event.RawText,
                                                analyzed.before[x].Event.RawText)}}
        /\ analyzed.event.EventID \notin Range(analyzed.related)

\* a new signature met an entry of its own identifier, an entry of its file
\* that is too old, and an entry it has only a tag in common with
C32_Witness ==
    /\ NewSignature
    /\ analyzed.related = <<"hash_c">>
    /\ \E s \in DOMAIN analyzed.before :
           /\ analyzed.before[s].Event.EventID = "trace-1"
           /\ analyzed.at - analyzed.before[s].LastSeen > 5
    /\ analyzed.event.EventID = "trace-1"

\* the last call was CleanupExpiredEvents
Swept == analyzed.op = "CleanupExpiredEvents"

\* the entries the last sweep met that were last seen more than the TTL before it
Expired == {s \in DOMAIN analyzed.before : analyzed.at - analyzed.before[s].LastSeen > CacheTTL}

\* C33: CleanupExpiredEvents removes exactly the entries last seen more than
\* the TTL ago and the related events recorded for their identifiers, and
\* leaves every other entry as it was, with the related events recorded for
\* its identifier, also when an entry removed has the same identifier
C33_SweepRemovesExactlyExpired ==
    Swept =>
        /\ DOMAIN eventCache = DOMAIN analyzed.before \ Expired
        /\ \A s \in DOMAIN eventCache :
               /\ eventCache[s] = analyzed.before[s]
               /\ lookup(relatedEvents, eventCache[s].Event.EventID)
                      = lookup(analyzed.relatedBefore, eventCache[s].Event.EventID)
        /\ \A s \in Expired :
               (\A k \in DOMAIN eventCache :
                    eventCache[k].Event.EventID # analyzed.before[s].Event.EventID)
               => analyzed.before[s].Event.EventID \notin DOMAIN relatedEvents

----------------------------------------------------------------------------
(* The priority of the expressions of extractEventID *)

\* C34: the expressions are tried in the order trace, request, session,
\* correlation, transaction, token in brackets, UUID over the whole event: an
\* event with a trace identifier and a request identifier has the trace
\* identifier wherever the two stand, and a trace identifier of less than 6
\* characters is passed over for the request identifier
C34_TraceBeforeRequest ==
    \A i \in 1..Len(events) :
        /\ events[i].RawLines \in BothMarkers => events[i].EventID = "abc123"
        /\ events[i].RawLines = ShortTrace => events[i].EventID = "req-0001"

----------------------------------------------------------------------------
(* The goroutines of a scan cycle, each of them scheduled again and again *)

\* what no step of the cycle changes
CycleFrame == UNCHANGED alertVars /\ UNCHANGED classifierVars /\ UNCHANGED poolVars

\* a step of the cycle taken by worker w, by the goroutine that feeds
\* fileChan, by the goroutine that closes the channels, by the caller
WorkerStep(w) ==
    /\ CycleFrame
    /\ w \in DOMAIN workers
    /\ \/ WorkerReceive(w) /\ UNCHANGED <<config, reads>>
       \/ WorkerTimeout(w) /\ UNCHANGED <<config, reads>>
       \/ WorkerSend(w) /\ UNCHANGED <<config, reads>>

FeederRuns == CycleFrame /\ FeederStep /\ UNCHANGED <<config, reads>>

CloserRuns == CycleFrame /\ CloserStep /\ UNCHANGED <<config, reads>>

CollectorRuns == CycleFrame /\ Collect /\ UNCHANGED <<config, reads>>

\* a goroutine that can take a step takes one, and no worker reads its file
\* forever (readFromFileWithContext returns); the deadline may pass or not
SpecCycleFair ==
    /\ SpecCycle
    /\ \A w \in 1..MaxWorkers : WF_vars(WorkerStep(w))
    /\ \A w \in 1..MaxWorkers : []<>(w \in DOMAIN workers => workers[w].pc # "read")
    /\ WF_vars(FeederRuns)
    /\ WF_vars(CloserRuns)
    /\ WF_vars(CollectorRuns)

\* every worker has returned and both channels are closed
WorkersGone ==
    /\ \A w \in DOMAIN workers : workers[w].pc = "done"
    /\ resultChan.closed
    /\ errorChan.closed

\* C35: once ReadNewLogEventsWithConfig has returned, normally or on timeout,
\* every worker it started returns and resultChan and errorChan are closed
\* after finitely many steps
C35_WorkersTerminate == (collector.pc = "returned") ~> WorkersGone

----------------------------------------------------------------------------
(* The cell-trace flag of the events of a scan *)

\* C36: an event is flagged IsCellTrace exactly when its first raw line
\* matches one of the cell-trace patterns, whether its span was ended by a
\* trigger line that follows, by a line that is not included, or by the end
\* of the lines
C36_FlagOfFirstLine ==
    Segmented =>
        \A i \in 1..Len(events) :
            events[i].IsCellTrace = matchesCellTrace(events[i].RawLines[1])

----------------------------------------------------------------------------
(* The repeat of an event whose processing failed *)

\* worker v has left an event that was new to the analyzer: ai.Analyze
\* returned an error, or IndexLog did
GaveUp(v) ==
    /\ pool[v].pc = "idle"
    /\ pool[v].isNew
    /\ pool[v].trace # <<>>
    /\ \/ pool[v].trace[Len(pool[v].trace)] = "ai" /\ pool[v].aiResult = ""
       \/ pool[v].trace[Len(pool[v].trace)] = "index" /\ cfg.AlertEnable

\* worker w, inside AnalyzeEvent, has an event with the signature of the one
\* worker v has left, and the entry of that signature is within the TTL
RepeatOfFailed(w, v) ==
    /\ GaveUp(v)
    /\ pool[w].pc = "analyzeEnd"
    /\ pool[w].signature = pool[v].signature
    /\ pool[w].signature \in DOMAIN eventCache
    /\ now - eventCache[pool[w].signature].LastSeen <= CacheTTL

\* C37: when the processing of a new event failed after AnalyzeEvent (the
\* analysis by the AI or the write to the index returned an error), a later
\* event with the same signature that arrives within the TTL of the cache is
\* processed again: AnalyzeEvent is followed by the analysis, not by a skip
C37_FailedEventProcessedAgain ==
    [][\A w \in PoolWorkers : \A v \in PoolWorkers :
          (RepeatOfFailed(w, v) /\ pool'[w].pc # "analyzeEnd") => pool'[w].pc = "ai"]_vars

----------------------------------------------------------------------------
(* The aggregate a similar event is merged into *)

\* TextD differs from TextC in one character and from TextA in two
TextD == "io err 7 ac13"

\* the calls of AddOrUpdate in SpecSimilar: three events of one host and file
\* with three keys, the third similar to the first and to the second, which
\* are not similar to each other
SimilarCalls ==
    { <<Event("h1", PathA, TextA, 8, FALSE, <<>>), "r1">>,
      <<Event("h1", PathA, TextD, 8, FALSE, <<>>), "r1">>,
      <<Event("h1", PathA, TextC, 8, FALSE, <<>>), "r1">> }

SimilarNext ==
    /\ UNCHANGED classifierVars
    /\ UNCHANGED tailerVars
    /\ UNCHANGED cycleVars
    /\ UNCHANGED poolVars
    /\ \/ \E call \in SimilarCalls :
             /\ Occurrences(hist, DOMAIN hist) < MaxOccurrences
             /\ AddOrUpdate(call[1], call[2])
       \/ Tick(MaxTime)

SpecSimilar == Init /\ [][SimilarNext]_vars

\* the last call merged its event into an aggregate found by the scan for a
\* similar one
FuzzyMerged == last.op = "AddOrUpdate" /\ last.path = "fuzzy"

\* C38: the cache after a sequence of calls of AddOrUpdate is determined by
\* the sequence: an event without an aggregate of its key that is similar to
\* more than one aggregate of its host and file is merged into the same
\* aggregate in every run, so the aggregate it was merged into is the only
\* one the call could have taken
C38_MergeTargetDetermined ==
    FuzzyMerged => similarKeys(last.before, last.event) = {last.key}

----------------------------------------------------------------------------
(* An occurrence that meets an aggregate idle for longer than the TTL *)

\* the last call of AddOrUpdate took an aggregate that had been idle for
\* longer than the TTL of the cache when the call was made
MetExpired ==
    /\ Merged
    /\ expired(last.before[last.key], now, AlertTTL)

\* C39: AddOrUpdate merges no occurrence into an aggregate idle for longer
\* than the TTL; the occurrence makes a new aggregate with Count = 1, whether
\* Cleanup has run since the aggregate expired or not
C39_ExpiredIsNotMergedInto ==
    MetExpired => cache[last.key].Count = 1

----------------------------------------------------------------------------
(* The close of the event channel *)

\* C40: in every interleaving of a shutdown eventChan is closed at most once,
\* and nothing is sent to it once it is closed: the main loop, which alone
\* sends to it and closes it, reaches no send after the close
C40_ClosedOnceNoSendAfter ==
    [][/\ chanCloses' <= 1
       /\ chanCloses > 0 => Len(eventChan') <= Len(eventChan)]_vars

\* main has closed eventChan, with an event of the cycle still in it, and returned
C40_Witness ==
    /\ chanCloses = 1
    /\ mainStep = "exited"
    /\ eventChan # <<>>

====
